---- MODULE Spec2Model ----
(***************************************************************************)
(* A model of the H.Airbrush toolpath sequencer of gcodegen                 *)
(* (src/gcodegen/airbrush.py, class AirbrushController).                    *)
(*                                                                          *)
(* Numbers.  Python floats are modelled as fixed-point integers:            *)
(*   lengths (Z, widths, coordinates, flow-axis positions) in units of      *)
(*   1e-7 mm, so that the code's 1e-6 comparisons tolerance (Eps) and the   *)
(*   3-decimal formatting of emitted values (Fmt3) are both representable;  *)
(*   opacity and flow in 1e-4; feedrates in 1e-3 mm/min.                    *)
(* A command line of the output is a record holding the text's fields as    *)
(* they are printed (after formatting), plus the probe fields cz, ba, bb,   *)
(* cb: the controller's current_z, brush flags and current_brush at the     *)
(* time the line was appended.                                              *)
(***************************************************************************)
EXTENDS Integers, Sequences, FiniteSets, TLC

\* ------------------------------------------------------------------ units
MM == 10 * 1000 * 1000          \* one millimetre in length units (1e-7 mm)
Eps == MM \div 1000000          \* the literal 1e-6 of the code, in length units
One == 10 * 1000                \* 1.0 for opacity / flow (units of 1e-4)

Absent == 0 - (100 * MM)        \* a key that a dict does not hold
NoBrush == "None"               \* Python None for current_brush

Max(a, b) == IF a >= b THEN a ELSE b
Min(a, b) == IF a <= b THEN a ELSE b
Abs(a) == IF a >= 0 THEN a ELSE 0 - a

\* The one element of a singleton set.  The(F(s) : s \in {e}) is F(e) with e
\* evaluated once, however often F uses it.
The(S) == CHOOSE r \in S : TRUE

\* f"{v:.3f}" of a length: the value in thousandths of a mm, rounded.
Fmt3(v) == (v + (MM \div 2000)) \div (MM \div 1000)
\* f"{v:.2f}" of a length: the value in hundredths of a mm, rounded.
Fmt2(v) == (v + (MM \div 200)) \div (MM \div 100)

\* --------------------------------------------------------------- bounds
\* Longest polyline handed to generate_path_commands.
MaxPts == 3

\* ------------------------------------------------- configuration values
\* AirbrushController.__init__ defaults (mm, mm/min)
DefaultSafeZ == 10
DefaultZMin == 5
DefaultZMax == 80
DefaultTravelSpeed == 24000
DefaultZSpeed == 1200
DefaultFeedrateMin == 6000
DefaultAxisMax == 4
DefaultAxisFeedrate == 200
\* Config.DEFAULT_CONFIG machine.safe_z (mm)
ConfigSafeZ == 5

u_axis_min == 0
u_axis_max == DefaultAxisMax * MM
u_axis_dead_zone == (8 * MM) \div 10
u_axis_feedrate == DefaultAxisFeedrate
v_axis_min == 0
v_axis_max == DefaultAxisMax * MM
v_axis_dead_zone == (8 * MM) \div 10
v_axis_feedrate == DefaultAxisFeedrate

travel_speed == DefaultTravelSpeed * 1000
z_speed == DefaultZSpeed * 1000
feedrate_min_default == DefaultFeedrateMin * 1000
feedrate_max_default == travel_speed
flow_min_default == One \div 10
flow_max_default == One
flow_width_factor_default == (5 * One) \div 100

\* 2 * spray_cone_factor = 2 * tan(15 deg / 2) = 0.26330..., as ConeNum / ConeDen
ConeNum == 79
ConeDen == 300

\* The code's default gamma is 1.8; integer arithmetic has no real powers, so the
\* model runs with the configuration airbrush.opacity_speed_gamma = 2.
opacity_speed_gamma_default == 2

\* A tool's calibration record; Absent marks a key the dict does not hold.
Tool(key, color, min_width, max_width) ==
  [key |-> key, color |-> color, min_width |-> min_width, max_width |-> max_width,
   v_min |-> Absent, v_max |-> Absent, opacity_gamma |-> Absent,
   p_min |-> Absent, p_max |-> Absent, flow_width_factor |-> Absent,
   flow_scale |-> Absent, flow_offset |-> Absent]

\* tool_cfg.get(field, default)
ToolGet(tool_cfg, field, default) ==
  IF tool_cfg[field] = Absent THEN default ELSE tool_cfg[field]

\* tool_cfg = {} : what tools_cfg.get("tool0", {}) returns without that key
EmptyTool == Tool("", "", Absent, Absent)

\* The "tools" sections the model runs under (an ordered dict each):
\*  1 no "tools" section; 2 Config.DEFAULT_CONFIG's tools; 3 tool0's width
\*  bounds misordered, tool1 with min_width only.
ToolsNone == << >>
ToolsDefault == << Tool("tool0", "#000000", (3 * MM) \div 10, 2 * MM),
                   Tool("tool1", "#FFFFFF", (3 * MM) \div 10, 2 * MM) >>
ToolsMisordered == << Tool("tool0", "#000000", 2 * MM, (3 * MM) \div 10),
                      Tool("tool1", "#FFFFFF", 3 * MM, Absent) >>

MkConfig(safe_z, cone_num, tools) ==
  [safe_z |-> safe_z, z_min |-> DefaultZMin * MM, z_max |-> DefaultZMax * MM,
   cone_num |-> cone_num, skip_homing |-> FALSE, tools |-> tools]

Configs ==
  { MkConfig(s, c, t) : s \in {DefaultSafeZ * MM, ConfigSafeZ * MM},
                        c \in {ConeNum},
                        t \in {ToolsNone, ToolsDefault, ToolsMisordered} }

\* ---------------------------------------------------------------- helpers
\* color.strip().lower() on the colour strings the model uses
StripLower(color) ==
  CASE color = " White " -> "white"
    [] color = "WHITE" -> "white"
    [] color = " #FFF " -> "#fff"
    [] color = "#FF0000" -> "#ff0000"
    [] color = "#FFFFFF" -> "#ffffff"
    [] color = "#FFF" -> "#fff"
    [] color = "Black" -> "black"
    [] OTHER -> color

\* Faulty variant: the colour is compared as written (no strip, no lower)
NormalizeColor_CaseSensitive(color) ==
  IF color = "" THEN ""
  ELSE IF color \in {"black", "#000", "#000000"} THEN "#000000"
  ELSE IF color \in {"white", "#fff", "#ffffff"} THEN "#ffffff"
  ELSE IF color # "#ffffff" THEN "#000000" ELSE "#ffffff"

\* AirbrushController._normalize_color
NormalizeColor(color) ==
  IF color = "" THEN ""
  ELSE LET c == StripLower(color) IN
       IF c \in {"black", "#000", "#000000"} THEN "#000000"
       ELSE IF c \in {"white", "#fff", "#ffffff"} THEN "#ffffff"
       ELSE IF c # "#ffffff" THEN "#000000" ELSE "#ffffff"

\* tools_cfg.get(key, {})
ToolsGet(tools_cfg, key) ==
  IF \E i \in 1..Len(tools_cfg) : tools_cfg[i].key = key
  THEN tools_cfg[CHOOSE i \in 1..Len(tools_cfg) : tools_cfg[i].key = key]
  ELSE EmptyTool

\* tool_key.lower() == "tool0"
IsTool0(key) == key \in {"tool0", "Tool0", "TOOL0"}

\* AirbrushController._resolve_tool_for_color: [brush_id, tool_cfg]
ResolveToolForColor(c, stroke_color) ==
  LET tools_cfg == c.tools
      normalized == NormalizeColor(stroke_color)
      hits == {i \in 1..Len(tools_cfg) : NormalizeColor(tools_cfg[i].color) = normalized}
  IN IF hits # {}
     THEN LET i == CHOOSE k \in hits : \A j \in hits : k <= j
          IN [brush_id |-> IF IsTool0(tools_cfg[i].key) THEN "A" ELSE "B",
              tool_cfg |-> tools_cfg[i]]
     ELSE IF normalized = "#ffffff"
          THEN [brush_id |-> "B", tool_cfg |-> ToolsGet(tools_cfg, "tool1")]
          ELSE [brush_id |-> "A", tool_cfg |-> ToolsGet(tools_cfg, "tool0")]

\* (base ** gamma) for base in [0, 1] (units of One) and an integer gamma;
\* Python raises ZeroDivisionError for 0.0 ** gamma with gamma < 0, which the
\* caller models before it asks for the power.
RECURSIVE PowUnit(_, _)
PowUnit(base, gamma) ==
  IF gamma = 0 THEN One
  ELSE IF gamma < 0 THEN (One * One) \div PowUnit(base, 0 - gamma)
  ELSE (PowUnit(base, gamma - 1) * base) \div One

\* stroke_width / (2.0 * self.spray_cone_factor), without overflowing
ZFromWidth(c, stroke_width) ==
  (stroke_width \div c.cone_num) * ConeDen
    + ((stroke_width % c.cone_num) * ConeDen) \div c.cone_num

\* Faulty variant: the upper Z bound is not applied
ZHeight_NoUpperBound(c, stroke_width) ==
  Max(c.z_min, IF c.cone_num > 0 THEN ZFromWidth(c, stroke_width) ELSE c.z_min)

\* Width -> Z (airbrush.py lines 254-257)
ZHeight(c, stroke_width) ==
  LET z_from_width == IF c.cone_num > 0 THEN ZFromWidth(c, stroke_width) ELSE c.z_min
  IN Max(c.z_min, Min(c.z_max, z_from_width))

\* max(0.0, min(1.0, float(stroke_opacity)))
ClampOpacity(stroke_opacity) == Max(0, Min(One, stroke_opacity))

\* Faulty variant: the opacity itself is raised to gamma, not its complement
Feedrate_Inverted(stroke_opacity, tool_cfg) ==
  LET v_min == ToolGet(tool_cfg, "v_min", feedrate_min_default)
      v_max == ToolGet(tool_cfg, "v_max", feedrate_max_default)
      gamma == ToolGet(tool_cfg, "opacity_gamma", opacity_speed_gamma_default)
      o == ClampOpacity(stroke_opacity)
      raised == gamma < 0 /\ o = 0
  IN [raised |-> raised,
      feedrate |-> IF raised THEN Absent
                   ELSE v_min + (PowUnit(o, gamma) * (Max(0, v_max - v_min) \div 1000))
                                  \div (One \div 1000)]

\* Opacity -> feedrate (airbrush.py lines 259-264): the feedrate, or raised
\* (ZeroDivisionError from 0.0 ** gamma with gamma < 0)
Feedrate(stroke_opacity, tool_cfg) ==
  LET v_min == ToolGet(tool_cfg, "v_min", feedrate_min_default)
      v_max == ToolGet(tool_cfg, "v_max", feedrate_max_default)
      gamma == ToolGet(tool_cfg, "opacity_gamma", opacity_speed_gamma_default)
      o == ClampOpacity(stroke_opacity)
      raised == gamma < 0 /\ One - o = 0
  IN [raised |-> raised,
      feedrate |-> IF raised THEN Absent
                   ELSE v_min
                        + (PowUnit(One - o, gamma) * (Max(0, v_max - v_min) \div 1000))
                            \div (One \div 1000)]

\* base_flow * flow_scale + flow_offset (airbrush.py lines 266-277)
ScaledFlow(stroke_width, stroke_opacity, tool_cfg) ==
  LET o == ClampOpacity(stroke_opacity)
      flow_min == ToolGet(tool_cfg, "p_min", flow_min_default)
      flow_max == ToolGet(tool_cfg, "p_max", flow_max_default)
      k_w == ToolGet(tool_cfg, "flow_width_factor", flow_width_factor_default)
      w_min == ToolGet(tool_cfg, "min_width", MM)
      w_max == ToolGet(tool_cfg, "max_width", Max(w_min + MM, stroke_width))
      norm_width ==
        IF w_max > w_min
        THEN IF stroke_width <= w_min THEN 0
             ELSE IF stroke_width >= w_max THEN One
             ELSE (((stroke_width - w_min) \div 1000) * One)
                    \div Max(1, (w_max - w_min) \div 1000)
        ELSE 0
      base_flow == flow_min + (o * (flow_max - flow_min)) \div One
                   + (k_w * norm_width) \div One
      flow_scale == ToolGet(tool_cfg, "flow_scale", One)
      flow_offset == ToolGet(tool_cfg, "flow_offset", 0)
  IN (base_flow * flow_scale) \div One + flow_offset

\* Faulty variant: the scaled flow is returned without the final clamp
PaintFlow_Unclamped(stroke_width, stroke_opacity, tool_cfg) ==
  ScaledFlow(stroke_width, stroke_opacity, tool_cfg)

\* Opacity/width -> flow (airbrush.py lines 266-278)
PaintFlow(stroke_width, stroke_opacity, tool_cfg) ==
  LET flow_min == ToolGet(tool_cfg, "p_min", flow_min_default)
      flow_max == ToolGet(tool_cfg, "p_max", flow_max_default)
  IN Max(flow_min, Min(flow_max, ScaledFlow(stroke_width, stroke_opacity, tool_cfg)))

\* AirbrushController.calculate_airbrush_parameters:
\* [z_height, paint_flow, feedrate], or raised
CalculateAirbrushParameters(c, stroke_width, stroke_opacity, tool_cfg) ==
  The({ [z_height |-> ZHeight(c, stroke_width),
         paint_flow |-> PaintFlow(stroke_width, stroke_opacity, tool_cfg),
         feedrate |-> f.feedrate, raised |-> f.raised]
        : f \in {Feedrate(stroke_opacity, tool_cfg)} })

\* --------------------------------------------------------- command lines
\* One line of output: op names the directive, t/x/y/v hold its printed fields.
Cmd(op, t, x, y, v) == [op |-> op, t |-> t, x |-> x, y |-> y, v |-> v]

Comment(tag, x, y) == Cmd("comment", tag, x, y, 0)
Directive(code) == Cmd(code, "", 0, 0, 0)
\* "G1 Z{z:.3f} F{z_speed:.3f}"
ZMove(z) == Cmd("G1Z", "", 0, 0, Fmt3(z))
Wait == Directive("M400")
\* "T{n}"
ToolSelect(n) == Cmd("T", "", 0, 0, n)
\* "M564 H0 S0" (on = 0) / "M564 H1 S1" (on = 1)
SoftLimits(on) == Cmd("M564", "", 0, 0, on)
\* "G0 X{x:.3f} Y{y:.3f} F..."
Rapid(x, y) == Cmd("G0", "", Fmt3(x), Fmt3(y), 0)
\* "G1 F{feedrate:.3f}"
SetFeedrate(f) == Cmd("G1F", "", 0, 0, f)
\* "M106 P{fan} S{on}"
Air(fan, on) == Cmd("M106", "", fan, 0, on)
\* "G1 {axis}{pos:.3f} F{axis_feedrate}"
FlowMove(axis, pos) == Cmd("G1UV", axis, 0, 0, Fmt3(pos))
\* "G1 X{x:.3f} Y{y:.3f}" and "G1 X{x:.3f} Y{y:.3f} {axis}{flow_position:.3f}"
LineMove(x, y) == Cmd("G1XY", "", Fmt3(x), Fmt3(y), 0)
LineMoveFlow(x, y, axis, pos) == Cmd("G1XY", axis, Fmt3(x), Fmt3(y), Fmt3(pos))

\* ------------------------------------------------- the controller object
\* The mutable fields of an AirbrushController, with the list `commands`
\* a method is filling, and whether it raised.
Self(z, a, b, cur) ==
  [current_z |-> z, brush_a_active |-> a, brush_b_active |-> b,
   current_brush |-> cur, commands |-> << >>, raised |-> FALSE]

\* commands.append(line)
Emit(self, line) ==
  The({ [s EXCEPT !.commands =
           Append(@, [op |-> l.op, t |-> l.t, x |-> l.x, y |-> l.y, v |-> l.v,
                      cz |-> s.current_z, ba |-> s.brush_a_active,
                      bb |-> s.brush_b_active, cb |-> s.current_brush])]
        : s \in {self}, l \in {line} })

RECURSIVE EmitAll(_, _)
EmitAll(self, lines) ==
  IF lines = << >> THEN self ELSE EmitAll(Emit(self, Head(lines)), Tail(lines))

\* raise ValueError(...): the method returns nothing and leaves the fields as they are
Raise(self) == [self EXCEPT !.commands = << >>, !.raised = TRUE]

\* Faulty variant: no raise is emitted and current_z is left alone
MaybeRaiseToSafe_Idle(c, self) == self

\* Faulty variant: retracts to z_max whenever the tool is below it
MaybeRaiseToSafe_Retract(c, self) ==
  The({ IF s.current_z < c.z_max
        THEN [EmitAll(s, << ZMove(c.z_max), Wait >>) EXCEPT !.current_z = c.z_max]
        ELSE s
        : s \in {self} })

\* AirbrushController._maybe_raise_to_safe (z_travel = safe_z_threshold = machine.safe_z)
MaybeRaiseToSafe(c, self) ==
  The({ IF s.current_z < c.safe_z
        THEN [EmitAll(s, << ZMove(c.safe_z), Wait >>) EXCEPT !.current_z = c.safe_z]
        ELSE s
        : s \in {self} })

\* AirbrushController.generate_machine_initialization
GenerateMachineInitialization(c, self) ==
  LET s1 == EmitAll(self,
              << Comment("title", 0, 0), Comment("generated", 0, 0),
                 Directive("M451"), Directive("G17"), Directive("G21"),
                 Directive("G90"), Directive("M17"), SoftLimits(1) >>)
      s2 == IF ~c.skip_homing
            THEN EmitAll(s1, << Directive("G28"), Directive("G28U"), Directive("G28V") >>)
            ELSE s1
      s3 == The({ IF s.current_z < c.safe_z
                  THEN [EmitAll(s, << ZMove(c.safe_z), Wait >>)
                          EXCEPT !.current_z = c.safe_z]
                  ELSE s
                  : s \in {s2} })
      s4 == The({ Emit(s, Cmd("G92Z", "", 0, 0, Fmt3(s.current_z))) : s \in {s3} })
  IN EmitAll(s4,
       << Directive("M84"),
          Comment("init", 0, 0), Comment("init1", 0, 0),
          Air(2, 0), Air(3, 0), Directive("G4"),
          Comment("init2", 0, 0),
          FlowMove("U", u_axis_min), FlowMove("V", v_axis_min), Wait,
          Comment("toolsel", 0, 0), ToolSelect(0),
          Comment("cfg", 0, 0), Comment("cfgA", 0, 0), Comment("cfgB", 0, 0),
          Comment("endinit", 0, 0), Directive("") >>)

\* AirbrushController.generate_machine_cleanup
GenerateMachineCleanup(c, self) ==
  LET s1 == MaybeRaiseToSafe(c, Emit(self, Comment("cleanup", 0, 0)))
  IN EmitAll(s1,
       << Comment("home", 0, 0), ToolSelect(0), Rapid(0, 0), Wait, SoftLimits(1),
          Comment("off", 0, 0),
          FlowMove("U", u_axis_min), FlowMove("V", v_axis_min),
          Air(2, 0), Air(3, 0), Directive("G4"), Directive("M18"),
          Comment("end", 0, 0) >>)

\* Faulty variant: no validation, any identifier other than 'A' is taken for brush B
StartBrush_Unchecked(c, self, brush_id) ==
  LET tool_number == IF brush_id = "A" THEN 0 ELSE 1
      s1 == MaybeRaiseToSafe(c, Emit(self, Comment("START BRUSH", tool_number, 0)))
      s2 == Emit(s1, ToolSelect(tool_number))
      s3 == IF brush_id # "A" THEN Emit(s2, SoftLimits(0)) ELSE s2
  IN IF brush_id = "A"
     THEN [s3 EXCEPT !.brush_a_active = TRUE, !.current_brush = "A"]
     ELSE [s3 EXCEPT !.brush_b_active = TRUE, !.current_brush = "B"]

\* AirbrushController.start_brush
StartBrush(c, self, brush_id) ==
  IF brush_id \notin {"A", "B"} THEN Raise(self)
  ELSE
    LET tool_number == IF brush_id = "A" THEN 0 ELSE 1
        s1 == MaybeRaiseToSafe(c, Emit(self, Comment("START BRUSH", tool_number, 0)))
        s2 == Emit(s1, ToolSelect(tool_number))
        s3 == IF brush_id = "B" THEN Emit(s2, SoftLimits(0)) ELSE s2
    IN IF brush_id = "A"
       THEN [s3 EXCEPT !.brush_a_active = TRUE, !.current_brush = "A"]
       ELSE [s3 EXCEPT !.brush_b_active = TRUE, !.current_brush = "B"]

\* Faulty variant: the flow axis is closed but the air valve is left on
StopBrush_AirLeftOn(c, self, brush_id) ==
  IF brush_id \notin {"A", "B"} THEN Raise(self)
  ELSE
    LET axis == IF brush_id = "A" THEN "U" ELSE "V"
        air_fan == IF brush_id = "A" THEN 2 ELSE 3
        axis_min == IF brush_id = "A" THEN u_axis_min ELSE v_axis_min
        s1 == EmitAll(self, << Comment("STOP BRUSH", air_fan, 0),
                               FlowMove(axis, axis_min) >>)
        s2 == IF brush_id = "B"
              THEN Emit(MaybeRaiseToSafe(c, s1), SoftLimits(1))
              ELSE MaybeRaiseToSafe(c, s1)
        s3 == IF brush_id = "A"
              THEN [s2 EXCEPT !.brush_a_active = FALSE]
              ELSE [s2 EXCEPT !.brush_b_active = FALSE]
    IN [s3 EXCEPT !.current_brush = NoBrush]

\* Faulty variant: brush B's soft limits are not restored and its flag is not cleared
StopBrush_Forgetful(c, self, brush_id) ==
  IF brush_id \notin {"A", "B"} THEN Raise(self)
  ELSE
    LET axis == IF brush_id = "A" THEN "U" ELSE "V"
        air_fan == IF brush_id = "A" THEN 2 ELSE 3
        axis_min == IF brush_id = "A" THEN u_axis_min ELSE v_axis_min
        s1 == EmitAll(self, << Comment("STOP BRUSH", air_fan, 0),
                               FlowMove(axis, axis_min), Air(air_fan, 0) >>)
        s2 == MaybeRaiseToSafe(c, s1)
        s3 == IF brush_id = "A" THEN [s2 EXCEPT !.brush_a_active = FALSE] ELSE s2
    IN [s3 EXCEPT !.current_brush = NoBrush]

\* AirbrushController.stop_brush
StopBrush(c, self, brush_id) ==
  IF brush_id \notin {"A", "B"} THEN Raise(self)
  ELSE
    LET axis == IF brush_id = "A" THEN "U" ELSE "V"
        air_fan == IF brush_id = "A" THEN 2 ELSE 3
        axis_min == IF brush_id = "A" THEN u_axis_min ELSE v_axis_min
        s1 == EmitAll(self, << Comment("STOP BRUSH", air_fan, 0),
                               FlowMove(axis, axis_min), Air(air_fan, 0) >>)
        s2 == IF brush_id = "B"
              THEN Emit(MaybeRaiseToSafe(c, s1), SoftLimits(1))
              ELSE MaybeRaiseToSafe(c, s1)
        s3 == IF brush_id = "A"
              THEN [s2 EXCEPT !.brush_a_active = FALSE]
              ELSE [s2 EXCEPT !.brush_b_active = FALSE]
    IN [s3 EXCEPT !.current_brush = NoBrush]

\* Faulty variant: the misordered bounds are reported but not swapped
ClampWidth_NoSwap(tool_cfg, stroke_width) ==
  LET min_w == ToolGet(tool_cfg, "min_width", stroke_width)
      max_w == ToolGet(tool_cfg, "max_width", stroke_width)
      effective_width == IF stroke_width < min_w THEN min_w
                         ELSE IF stroke_width > max_w THEN max_w
                         ELSE stroke_width
  IN [min_w |-> min_w, max_w |-> max_w, effective_width |-> effective_width,
      lines |->
        (IF max_w < min_w
         THEN << Comment("WARNING misordered", Fmt2(min_w), Fmt2(max_w)) >>
         ELSE << >>)
        \o (IF Abs(effective_width - stroke_width) > Eps
            THEN << Comment("Width clamped", Fmt2(stroke_width), Fmt2(effective_width)) >>
            ELSE << >>)]

\* The width clamp of generate_path_commands (airbrush.py lines 294-308):
\* the bounds after the misorder swap, the effective width and the comments.
ClampWidth(tool_cfg, stroke_width) ==
  LET min_w0 == ToolGet(tool_cfg, "min_width", stroke_width)
      max_w0 == ToolGet(tool_cfg, "max_width", stroke_width)
      misordered == max_w0 < min_w0
      min_w == IF misordered THEN max_w0 ELSE min_w0
      max_w == IF misordered THEN min_w0 ELSE max_w0
      before == stroke_width
      effective_width == IF stroke_width < min_w THEN min_w
                         ELSE IF stroke_width > max_w THEN max_w
                         ELSE stroke_width
  IN [min_w |-> min_w, max_w |-> max_w, effective_width |-> effective_width,
      lines |->
        (IF misordered
         THEN << Comment("WARNING misordered", Fmt2(min_w0), Fmt2(max_w0)) >>
         ELSE << >>)
        \o (IF Abs(effective_width - before) > Eps
            THEN << Comment("Width clamped", Fmt2(before), Fmt2(effective_width)) >>
            ELSE << >>)]

\* The local variables of generate_path_commands before it emits the stroke
\* (airbrush.py lines 291-331).
StrokeLocals(c, stroke_color, stroke_width, stroke_opacity) ==
  The({ The({ The({
    LET isA == r.brush_id = "A"
        axis_min == IF isA THEN u_axis_min ELSE v_axis_min
        axis_max == IF isA THEN u_axis_max ELSE v_axis_max
        axis_dead == IF isA THEN u_axis_dead_zone ELSE v_axis_dead_zone
        flow_position == axis_dead + p.paint_flow * ((axis_max - axis_dead) \div One)
    IN [brush_id |-> r.brush_id, effective_width |-> w.effective_width,
        lines |-> w.lines,
        z_height |-> p.z_height, paint_flow |-> p.paint_flow, feedrate |-> p.feedrate,
        axis |-> IF isA THEN "U" ELSE "V", air_fan |-> IF isA THEN 2 ELSE 3,
        flow_position |-> Max(axis_min, Min(axis_max, flow_position)),
        raised |-> p.raised]
    : p \in {CalculateAirbrushParameters(c, w.effective_width, stroke_opacity,
                                          r.tool_cfg)} })
    : w \in {ClampWidth(r.tool_cfg, stroke_width)} })
    : r \in {ResolveToolForColor(c, stroke_color)} })

\* No stroke was mapped (the call was not a drawable stroke).
NoLocals ==
  [brush_id |-> NoBrush, effective_width |-> 0, lines |-> << >>, z_height |-> 0,
   paint_flow |-> 0, feedrate |-> 0, axis |-> "", air_fan |-> 0, flow_position |-> 0,
   raised |-> FALSE]

\* Faulty variant: the tool goes to the drawing Z before the travel, up or down
PreTravelZ_Descend(c, self, z_height) ==
  The({ IF Abs(s.current_z - z_height) > Eps
        THEN [EmitAll(s, << ZMove(z_height), Wait >>) EXCEPT !.current_z = z_height]
        ELSE s
        : s \in {self} })

\* Faulty variant: the pre-travel step only ever raises to the safe threshold
PreTravelZ_SafeOnly(c, self, z_height) == MaybeRaiseToSafe(c, self)

\* Pre-travel Z handling of generate_path_commands (airbrush.py lines 346-357)
PreTravelZ(c, self, z_height) ==
  The({ LET none == Absent
            pre_travel_target_z ==
              IF s.current_z < c.safe_z THEN Max(c.safe_z, z_height)
              ELSE IF s.current_z < z_height THEN z_height
              ELSE none
        IN IF pre_travel_target_z # none /\ pre_travel_target_z > s.current_z
           THEN [EmitAll(s, << ZMove(pre_travel_target_z), Wait >>)
                   EXCEPT !.current_z = pre_travel_target_z]
           ELSE s
        : s \in {self} })

\* Descend or adjust to the drawing Z after the travel (airbrush.py lines 364-368)
PostTravelZ(self, z_height) ==
  The({ IF Abs(s.current_z - z_height) > Eps
        THEN [EmitAll(s, << ZMove(z_height), Wait >>) EXCEPT !.current_z = z_height]
        ELSE s
        : s \in {self} })

\* Faulty variant: every line move carries the flow-axis target
DrawLines_AllFlow(polyline, axis, flow_position) ==
  [i \in 1..(Len(polyline) - 1) |->
     LineMoveFlow(polyline[i + 1][1], polyline[i + 1][2], axis, flow_position)]

\* The drawing loop (airbrush.py lines 374-381): the lines for polyline[1:]
DrawLines(polyline, axis, flow_position) ==
  [i \in 1..(Len(polyline) - 1) |->
     IF i = 1
     THEN LineMoveFlow(polyline[2][1], polyline[2][2], axis, flow_position)
     ELSE LineMove(polyline[i + 1][1], polyline[i + 1][2])]

\* generate_path_commands for a drawable polyline (airbrush.py lines 289-389)
DrawStroke(c, self, polyline, stroke_color, stroke_width, stroke_opacity) ==
  The({
    IF l.raised THEN Raise(self) ELSE
    LET s1 == EmitAll(EmitAll(self, l.lines),
                << Comment("STROKE PARAMETERS", 0, 0),
                   Comment("Color", 0, 0),
                   Comment("Width", Fmt2(l.effective_width), 0),
                   Comment("Opacity", stroke_opacity \div 100, 0),
                   Comment(l.brush_id, 0, 0),
                   Comment("Z-height", Fmt2(l.z_height), 0),
                   Comment("Paint flow", l.paint_flow \div 100, Fmt3(l.flow_position)),
                   Comment("Feedrate", l.feedrate \div 100, 0) >>)
        s2 == StartBrush(c, s1, l.brush_id)
        s3 == PreTravelZ(c, s2, l.z_height)
        s4 == EmitAll(s3, << Rapid(polyline[1][1], polyline[1][2]), Wait >>)
        s5 == PostTravelZ(s4, l.z_height)
        s6 == EmitAll(s5, << SetFeedrate(l.feedrate), Air(l.air_fan, 1) >>)
        s7 == Emit(EmitAll(s6, DrawLines(polyline, l.axis, l.flow_position)), Wait)
        s8 == StopBrush(c, s7, l.brush_id)
    IN Emit(s8, Comment("PATH END", 0, 0))
    : l \in {StrokeLocals(c, stroke_color, stroke_width, stroke_opacity)} })

\* return ["; WARNING: Path has fewer than 2 points, skipping."]
SkipStroke(self) == Emit(self, Comment("WARNING skipping", 0, 0))

\* Faulty variant: only the empty polyline is skipped
GeneratePathCommands_EmptyOnly(c, self, polyline, stroke_color, stroke_width, stroke_opacity) ==
  IF Len(polyline) < 1 THEN SkipStroke(self)
  ELSE DrawStroke(c, self, polyline, stroke_color, stroke_width, stroke_opacity)

\* AirbrushController.generate_path_commands
GeneratePathCommands(c, self, polyline, stroke_color, stroke_width, stroke_opacity) ==
  IF Len(polyline) < 2 THEN SkipStroke(self)
  ELSE DrawStroke(c, self, polyline, stroke_color, stroke_width, stroke_opacity)

\* ------------------------------------------------ the machine, as commanded
\* What the output so far has told the machine: z, the target of the last Z
\* move as printed (thousandths of a mm); zcmd, whether a Z move was printed at
\* all; xy, whether an XY move was printed after the last Z move; soft, the
\* soft-limit mode of the last M564; air2 and air3, whether the last M106 of
\* the fan switched it on; u and v, the printed target of the last move of the
\* flow axis.
Exec(m, line) ==
  CASE line.op = "G1Z" -> [m EXCEPT !.z = line.v, !.zcmd = TRUE, !.xy = FALSE]
    [] line.op = "G0" -> [m EXCEPT !.xy = TRUE]
    [] line.op = "G1XY" ->
         [m EXCEPT !.xy = TRUE, !.u = IF line.t = "U" THEN line.v ELSE @,
                   !.v = IF line.t = "V" THEN line.v ELSE @]
    [] line.op = "G1UV" ->
         [m EXCEPT !.u = IF line.t = "U" THEN line.v ELSE @,
                   !.v = IF line.t = "V" THEN line.v ELSE @]
    [] line.op = "M106" ->
         [m EXCEPT !.air2 = IF line.x = 2 THEN line.v # 0 ELSE @,
                   !.air3 = IF line.x = 3 THEN line.v # 0 ELSE @]
    [] line.op = "M564" -> [m EXCEPT !.soft = (line.v = 1)]
    [] OTHER -> m

\* The machine a controller is built for: nothing was commanded yet; the air
\* valves and the flow axes are wherever the last job left them, at worst open
NewMachine(z) ==
  [z |-> Fmt3(z), zcmd |-> FALSE, xy |-> FALSE, soft |-> TRUE,
   air2 |-> TRUE, air3 |-> TRUE, u |-> Absent, v |-> Absent]

RECURSIVE Run(_, _)
Run(m, lines) == IF lines = << >> THEN m ELSE Run(Exec(m, Head(lines)), Tail(lines))

\* The machine before line i of `lines`
Before(m, lines, i) == Run(m, SubSeq(lines, 1, i - 1))

\* The indices of the lines of `lines` with one of the ops
Lines(lines, ops) == {i \in 1..Len(lines) : lines[i].op \in ops}
First(S) == CHOOSE i \in S : \A j \in S : i <= j
Last(S) == CHOOSE i \in S : \A j \in S : i >= j

RECURSIVE ZTargets(_)
\* The printed targets of the Z moves of `lines`, in order
ZTargets(lines) ==
  IF lines = << >> THEN << >>
  ELSE (IF Head(lines).op = "G1Z" THEN << Head(lines).v >> ELSE << >>)
         \o ZTargets(Tail(lines))

\* The machine's Z at the last drawing move of `lines`, then the Z targets after it
TrailAfterDraw(m, lines) ==
  LET k == Last(Lines(lines, {"G1XY"}))
  IN << Run(m, SubSeq(lines, 1, k)).z >> \o ZTargets(SubSeq(lines, k + 1, Len(lines)))

\* The Z targets before the first drawing move of `lines`
TrailBeforeDraw(lines) ==
  ZTargets(SubSeq(lines, 1, First(Lines(lines, {"G1XY"})) - 1))

\* ------------------------------------------------------------------ state
VARIABLES
  cfg,             \* the configuration the controller was built with
  current_z, brush_a_active, brush_b_active, current_brush,  \* its fields
  out,             \* the command list the last call returned
  raised,          \* whether the last call raised ValueError
  call,            \* the last call and its arguments
  loc,             \* the stroke locals of the last call (NoLocals if none)
  mach,            \* the machine as commanded before the last call's output
  prev,            \* what the call before the last one left (see Summary)
  phase,           \* the caller's place in the job: new, run, done
  gen,             \* the GCodeGenerator object of gcode.py and its last call
  conf,            \* the Config class of config.py, its instances and the heap
                   \* of dictionaries they share
  pure             \* the last application of a side-effect-free method: its
                   \* name, arguments and result (NoPure if none)

vars == << cfg, current_z, brush_a_active, brush_b_active, current_brush,
           out, raised, call, loc, mach, prev, phase, gen, conf, pure >>

NoPure == [fn |-> ""]
\* No GCodeGenerator was built, no Config class was loaded
NoGenerator == [call |-> [op |-> ""]]
NoConfigs == [last |-> [op |-> ""]]

Call(op, polyline, stroke_color, stroke_width, stroke_opacity, brush_id) ==
  [op |-> op, polyline |-> polyline, stroke_color |-> stroke_color,
   stroke_width |-> stroke_width, stroke_opacity |-> stroke_opacity,
   brush_id |-> brush_id]

NoCall == Call("new", << >>, "", 0, 0, "")
Drawable(cl) == cl.op = "path" /\ Len(cl.polyline) >= 2

NoPrev ==
  [op |-> "new", drawable |-> FALSE, brush_id |-> NoBrush, z_height |-> 0,
   trail |-> << >>]

\* What a finished call leaves for the next one to be compared with
Summary(m, lines, cl, l) ==
  IF Drawable(cl)
  THEN [op |-> cl.op, drawable |-> TRUE, brush_id |-> l.brush_id,
        z_height |-> l.z_height, trail |-> TrailAfterDraw(m, lines)]
  ELSE [NoPrev EXCEPT !.op = cl.op]

\* ----------------------------------------------------------------- inputs
Colors == {"black", " White "}
Widths == {MM \div 10, (15 * MM) \div 10, 2 * MM + 5, 26333332, 26334000, 4 * MM}
Opacities == {(3 * One) \div 10}
BrushIds == {"A", "B", "C", ""}

\* The polyline of the first n points of a zigzag
Point(k) == << k * MM + (MM \div 3), (k % 2) * 2 * MM >>
Polyline(n) == [i \in 1..n |-> Point(i)]
Polylines == {Polyline(n) : n \in 0..MaxPts}

\* ------------------------------------------------------------------- Init
\* AirbrushController.__init__ : a fresh controller, nothing emitted yet
Init ==
  /\ cfg \in Configs
  /\ current_z = cfg.safe_z
  /\ brush_a_active = FALSE
  /\ brush_b_active = FALSE
  /\ current_brush = NoBrush
  /\ out = << >>
  /\ raised = FALSE
  /\ call = NoCall
  /\ loc = NoLocals
  /\ mach = NewMachine(cfg.safe_z)
  /\ prev = NoPrev
  /\ phase = "new"
  /\ gen = NoGenerator
  /\ conf = NoConfigs
  /\ pure = NoPure

\* The controller as the next call finds it
This == Self(current_z, brush_a_active, brush_b_active, current_brush)

\* A call returned (or raised): the fields, its output and the history move on
Return(self, cl, l) ==
  /\ current_z' = self.current_z
  /\ brush_a_active' = self.brush_a_active
  /\ brush_b_active' = self.brush_b_active
  /\ current_brush' = self.current_brush
  /\ out' = self.commands
  /\ raised' = self.raised
  /\ call' = cl
  /\ loc' = l
  /\ mach' = Run(mach, out)
  /\ prev' = Summary(mach, out, call, loc)
  /\ UNCHANGED << cfg, gen, conf, pure >>

\* ---------------------------------------------------------------- actions
CallInitialization ==
  Return(GenerateMachineInitialization(cfg, This),
         Call("init", << >>, "", 0, 0, ""), NoLocals)

CallCleanup ==
  Return(GenerateMachineCleanup(cfg, This),
         Call("cleanup", << >>, "", 0, 0, ""), NoLocals)

CallStartBrush(brush_id) ==
  Return(StartBrush(cfg, This, brush_id),
         Call("start_brush", << >>, "", 0, 0, brush_id), NoLocals)

CallStopBrush(brush_id) ==
  Return(StopBrush(cfg, This, brush_id),
         Call("stop_brush", << >>, "", 0, 0, brush_id), NoLocals)

CallPath(polyline, stroke_color, stroke_width, stroke_opacity) ==
  Return(GeneratePathCommands(cfg, This, polyline, stroke_color, stroke_width,
                              stroke_opacity),
         Call("path", polyline, stroke_color, stroke_width, stroke_opacity, ""),
         IF Len(polyline) < 2 THEN NoLocals
         ELSE StrokeLocals(cfg, stroke_color, stroke_width, stroke_opacity))

\* A job: initialization, any sequence of strokes, cleanup
JobInitialization == phase = "new" /\ phase' = "run" /\ CallInitialization

JobStroke ==
  /\ phase = "run" /\ phase' = "run"
  /\ \E polyline \in Polylines, stroke_color \in Colors, stroke_width \in Widths,
        stroke_opacity \in Opacities :
       CallPath(polyline, stroke_color, stroke_width, stroke_opacity)

JobCleanup == phase = "run" /\ phase' = "done" /\ CallCleanup

Next == JobInitialization \/ JobStroke \/ JobCleanup

Spec == Init /\ [][Next]_vars

\* Any order of the public methods, valid and invalid brush identifiers included
ApiWidths == {(15 * MM) \div 10, 4 * MM}
ApiPolylines == {Polyline(1), Polyline(MaxPts)}

ApiInitialization == UNCHANGED phase /\ CallInitialization
ApiCleanup == UNCHANGED phase /\ CallCleanup
ApiStartBrush == UNCHANGED phase /\ \E brush_id \in BrushIds : CallStartBrush(brush_id)
ApiStopBrush == UNCHANGED phase /\ \E brush_id \in BrushIds : CallStopBrush(brush_id)
ApiPath ==
  /\ UNCHANGED phase
  /\ \E polyline \in ApiPolylines, stroke_color \in Colors, stroke_width \in ApiWidths,
        stroke_opacity \in Opacities :
       CallPath(polyline, stroke_color, stroke_width, stroke_opacity)

ApiNext == ApiInitialization \/ ApiCleanup \/ ApiStartBrush \/ ApiStopBrush \/ ApiPath

ApiSpec == Init /\ [][ApiNext]_vars

\* ------------------------------------------- the deterministic mapper alone
\* calculate_airbrush_parameters and _resolve_tool_for_color read the
\* configuration and their arguments only; they are applied here to a fresh
\* controller under configurations of their own.

\* Tool sections for colour resolution
ToolsRed == << Tool("tool0", "#000000", Absent, Absent),
               Tool("tool1", "#ff0000", (3 * MM) \div 10, 2 * MM) >>
ToolsRedFirst == << Tool("tool0", "#FF0000", MM, 2 * MM),
                    Tool("tool1", "#FFFFFF", Absent, Absent) >>
ToolsReversed == << Tool("tool1", "#FFFFFF", MM, 3 * MM),
                    Tool("tool0", "#000000", MM, 2 * MM) >>
ToolsUncoloured == << Tool("tool0", "", MM, 2 * MM), Tool("tool1", "", MM, 3 * MM) >>
ToolsWhiteOnly == << Tool("tool1", " White ", MM, 3 * MM) >>

\* machine.z_min / machine.z_max pairs (the last one misordered), and
\* 2 * tan(spray_cone_angle / 2) for 15, 90 and 0 degrees as n / ConeDen
ZBounds == { << DefaultZMin * MM, DefaultZMax * MM >>, << 5 * MM, 8 * MM >>,
             << 6 * MM, 6 * MM >>, << 8 * MM, 5 * MM >> }
ConeNums == {ConeNum, 2 * ConeDen, 0}

MapperConfigs ==
  { [MkConfig(DefaultSafeZ * MM, n, t) EXCEPT !.z_min = z[1], !.z_max = z[2]]
    : n \in ConeNums, z \in ZBounds,
      t \in {ToolsNone, ToolsDefault, ToolsRed, ToolsRedFirst, ToolsReversed,
              ToolsUncoloured, ToolsWhiteOnly} }

\* Tool calibrations handed to calculate_airbrush_parameters: {} and overrides
\* of the feedrate bounds and gamma, and of the flow bounds, factor, scale, offset
Feedrates(v_min, v_max, gamma) ==
  [EmptyTool EXCEPT !.v_min = v_min * 1000, !.v_max = v_max * 1000,
                    !.opacity_gamma = gamma]
Flows(p_min, p_max, k_w, scale, offset) ==
  [Tool("tool0", "#000000", (3 * MM) \div 10, 2 * MM)
     EXCEPT !.p_min = p_min, !.p_max = p_max, !.flow_width_factor = k_w,
            !.flow_scale = scale, !.flow_offset = offset]

Calibrations ==
  { EmptyTool,
    Feedrates(1000, 3000, 1), Feedrates(1000, 3000, 3), Feedrates(2000, 2000, 0),
    Feedrates(3000, 1000, 2), Feedrates(1000, 3000, 0 - 1),
    Flows((2 * One) \div 10, (6 * One) \div 10, One \div 2, 2 * One, (3 * One) \div 10),
    Flows((2 * One) \div 10, (6 * One) \div 10, 0, One \div 4, 0 - One),
    Flows((8 * One) \div 10, (4 * One) \div 10, 0, One, 0) }

MapperWidths == {0 - MM, 0, MM \div 10, (15 * MM) \div 10, 2 * MM, 25 * MM}
MapperOpacities == {0 - (One \div 2), 0, (3 * One) \div 10, One \div 2, One,
                    (3 * One) \div 2}
MapperColors == {"", "black", "Black", "#000", " White ", "WHITE", " #FFF ", "#ffffff",
                 "red", "#ff0000", "#FF0000"}

\* AirbrushController.__init__ with the configuration c, nothing applied yet
FreshController(c) ==
  /\ cfg = c
  /\ current_z = c.safe_z
  /\ brush_a_active = FALSE
  /\ brush_b_active = FALSE
  /\ current_brush = NoBrush
  /\ out = << >>
  /\ raised = FALSE
  /\ call = NoCall
  /\ loc = NoLocals
  /\ mach = NewMachine(c.safe_z)
  /\ prev = NoPrev
  /\ phase = "new"
  /\ gen = NoGenerator
  /\ conf = NoConfigs
  /\ pure = NoPure

MapperInit == \E c \in MapperConfigs : FreshController(c)

\* A side-effect-free method returned: no field of the controller moves.  The
\* methods keep no state, so each behaviour applies one of them once (the
\* guard pure = NoPure of the actions).
Applied(p) ==
  /\ pure' = p
  /\ UNCHANGED << cfg, current_z, brush_a_active, brush_b_active, current_brush,
                  out, raised, call, loc, mach, prev, phase, gen, conf >>

Calculate ==
  /\ pure = NoPure
  /\ \E stroke_width \in MapperWidths, stroke_opacity \in MapperOpacities,
        tool_cfg \in Calibrations :
       Applied([fn |-> "calculate_airbrush_parameters", stroke_width |-> stroke_width,
                stroke_opacity |-> stroke_opacity, tool_cfg |-> tool_cfg,
                result |-> CalculateAirbrushParameters(cfg, stroke_width, stroke_opacity,
                                                       tool_cfg)])

Resolve ==
  /\ pure = NoPure
  /\ \E stroke_color \in MapperColors :
       Applied([fn |-> "_resolve_tool_for_color", stroke_color |-> stroke_color,
                result |-> ResolveToolForColor(cfg, stroke_color)])

MapperNext == Calculate \/ Resolve

MapperSpec == MapperInit /\ [][MapperNext]_vars

\* ------------------------------------------------ SVG transforms (svg.py)
\* A transform attribute is held as its text up to and including "(" and the
\* comma-separated fields between it and the last character.  A field is a
\* number, or text float() does not accept; float() of such a field raises
\* ValueError.  Matrices are 3x3, row by row; the arguments used are integers.
Num(v) == [num |-> TRUE, v |-> v, text |-> ""]
NotNum(text) == [num |-> FALSE, v |-> 0, text |-> text]
TransformStr(head, fields) == [head |-> head, fields |-> fields]

\* np.identity(3)
Identity3 == << << 1, 0, 0 >>, << 0, 1, 0 >>, << 0, 0, 1 >> >>

\* np.dot(a, b) of two 3x3 matrices
Dot(a, b) ==
  [i \in 1..3 |-> [j \in 1..3 |-> a[i][1] * b[1][j] + a[i][2] * b[2][j] + a[i][3] * b[3][j]]]

\* np.cos / np.sin of np.radians(angle_deg) for the quarter turns (where numpy
\* returns 0 to within 2e-16)
Cos(angle_deg) ==
  CASE angle_deg % 360 = 0 -> 1 [] angle_deg % 360 = 180 -> 0 - 1 [] OTHER -> 0
Sin(angle_deg) ==
  CASE angle_deg % 360 = 90 -> 1 [] angle_deg % 360 = 270 -> 0 - 1 [] OTHER -> 0

\* SVGPath._parse_transform: [raised, none, matrix]
ParseTransform(transform_str) ==
  LET f == transform_str.fields
      n == Len(f)
      values == [k \in 1..n |-> f[k].v]
      parses == transform_str.head \in {"matrix(", "translate(", "scale(", "rotate("}
      done(m) == [raised |-> FALSE, none |-> FALSE, matrix |-> m]
  IN IF transform_str.head = ""
     THEN [raised |-> FALSE, none |-> TRUE, matrix |-> Identity3]
     ELSE IF parses /\ \E k \in 1..n : ~f[k].num
     THEN [raised |-> TRUE, none |-> FALSE, matrix |-> Identity3]
     ELSE CASE transform_str.head = "matrix(" ->
                 IF n = 6
                 THEN done(<< << values[1], values[3], values[5] >>,
                              << values[2], values[4], values[6] >>,
                              << 0, 0, 1 >> >>)
                 ELSE done(Identity3)
            [] transform_str.head = "translate(" ->
                 LET tx == values[1]
                     ty == IF n > 1 THEN values[2] ELSE 0
                 IN done(<< << 1, 0, tx >>, << 0, 1, ty >>, << 0, 0, 1 >> >>)
            [] transform_str.head = "scale(" ->
                 LET sx == values[1]
                     sy == IF n > 1 THEN values[2] ELSE sx
                 IN done(<< << sx, 0, 0 >>, << 0, sy, 0 >>, << 0, 0, 1 >> >>)
            [] transform_str.head = "rotate(" ->
                 LET cos_a == Cos(values[1])
                     sin_a == Sin(values[1])
                     r == << << cos_a, 0 - sin_a, 0 >>, << sin_a, cos_a, 0 >>,
                             << 0, 0, 1 >> >>
                 IN IF n >= 3
                    THEN LET cx == values[2]
                             cy == values[3]
                             t1 == << << 1, 0, cx >>, << 0, 1, cy >>, << 0, 0, 1 >> >>
                             t2 == << << 1, 0, 0 - cx >>, << 0, 1, 0 - cy >>,
                                      << 0, 0, 1 >> >>
                         IN done(Dot(Dot(t1, r), t2))
                    ELSE done(r)
            [] OTHER -> done(Identity3)

\* SVGPath.add_transform
AddTransform(path, transform_str) ==
  LET m == ParseTransform(transform_str)
  IN IF m.raised THEN [path EXCEPT !.raised = TRUE]
     ELSE IF ~m.none
     THEN [path EXCEPT !.transform_matrix = Dot(m.matrix, @)]
     ELSE path

\* for transform in transform_chain: path.add_transform(transform)
RECURSIVE AddTransforms(_, _)
AddTransforms(path, transform_chain) ==
  IF transform_chain = << >> \/ path.raised THEN path
  ELSE AddTransforms(AddTransform(path, Head(transform_chain)), Tail(transform_chain))

\* list.reverse()
Reverse(seq) == [k \in 1..Len(seq) |-> seq[Len(seq) + 1 - k]]

\* if parent.get("transform"): transform_chain.append(...), walking from the
\* path's parent up to the root; `ancestors` holds the transform attribute of
\* each ancestor below the root, nearest first ("" head for none)
RECURSIVE CollectTransforms(_)
CollectTransforms(ancestors) ==
  IF ancestors = << >> THEN << >>
  ELSE (IF Head(ancestors).head # "" THEN << Head(ancestors) >> ELSE << >>)
         \o CollectTransforms(Tail(ancestors))

\* SVGDocument._extract_paths for one path element: the SVGPath it appends, or raised
ExtractPaths(ancestors) ==
  AddTransforms([transform_matrix |-> Identity3, raised |-> FALSE],
                Reverse(CollectTransforms(ancestors)))

\* SVGPath.transform_point
TransformPoint(transform_matrix, x, y) ==
  << transform_matrix[1][1] * x + transform_matrix[1][2] * y + transform_matrix[1][3],
     transform_matrix[2][1] * x + transform_matrix[2][2] * y + transform_matrix[2][3] >>

\* Deepest nesting of groups around a path
MaxDepth == 2

NoTransform == TransformStr("", << >>)
WellFormed ==
  { TransformStr("translate(", << Num(10), Num(20) >>),
    TransformStr("translate(", << Num(5) >>),
    TransformStr("scale(", << Num(2) >>),
    TransformStr("scale(", << Num(2), Num(3) >>),
    TransformStr("rotate(", << Num(90) >>),
    TransformStr("rotate(", << Num(90), Num(1), Num(2) >>),
    TransformStr("matrix(", << Num(1), Num(2), Num(3), Num(4), Num(5), Num(6) >>) }
\* skewX(30); matrix(1,2,3); translate(abc); translate(10 20);
\* translate(10,20) scale(2); scale()
Malformed ==
  { TransformStr("skewX(", << Num(30) >>),
    TransformStr("matrix(", << Num(1), Num(2), Num(3) >>),
    TransformStr("translate(", << NotNum("abc") >>),
    TransformStr("translate(", << NotNum("10 20") >>),
    TransformStr("translate(", << Num(10), NotNum("20) scale(2") >>),
    TransformStr("scale(", << NotNum("") >>) }
TransformStrs == WellFormed \cup Malformed

Ancestries ==
  UNION { [1..d -> TransformStrs \cup {NoTransform}] : d \in 0..MaxDepth }

SvgInit == FreshController(MkConfig(DefaultSafeZ * MM, ConeNum, ToolsNone))

ApplyParseTransform ==
  /\ pure = NoPure
  /\ \E transform_str \in TransformStrs \cup {NoTransform} :
       Applied([fn |-> "_parse_transform", transform_str |-> transform_str,
                result |-> ParseTransform(transform_str)])

ApplyExtractPaths ==
  /\ pure = NoPure
  /\ \E ancestors \in Ancestries :
       Applied([fn |-> "_extract_paths", ancestors |-> ancestors,
                result |-> ExtractPaths(ancestors)])

SvgNext == ApplyParseTransform \/ ApplyExtractPaths

SvgSpec == SvgInit /\ [][SvgNext]_vars

\* ------------------------------------- path flattening (path_processor.py)
\* Coordinates are in units of 1e-6 user units.  A PathCommand is its letter
\* and its parameter list.
UU == 1000 * 1000

PathCommand(command, params) == [command |-> command, params |-> params]

\* The local variables of path_to_polyline; raised: an IndexError from a
\* parameter list that ends inside a coordinate group
Flattening(polyline, current_x, current_y, subpath_start_x, subpath_start_y) ==
  [polyline |-> polyline, current_x |-> current_x, current_y |-> current_y,
   subpath_start_x |-> subpath_start_x, subpath_start_y |-> subpath_start_y,
   raised |-> FALSE]

\* Faulty variant: the start point is emitted too (t from 0)
CubicBezierToPolyline_FromStart(x0, y0, x1, y1, x2, y2, x3, y3, segments) ==
  LET n3 == segments * segments * segments
      B(k, p0, p1, p2, p3) ==
        LET i == k - 1
            u == segments - i
        IN (u * u * u * p0 + 3 * u * u * i * p1 + 3 * u * i * i * p2 + i * i * i * p3
              + n3 \div 2) \div n3
  IN [k \in 1..(segments + 1) |-> << B(k, x0, x1, x2, x3), B(k, y0, y1, y2, y3) >>]

\* PathProcessor._cubic_bezier_to_polyline: the points at t = i / segments,
\* i = 1 .. segments, each rounded to the coordinate unit
CubicBezierToPolyline(x0, y0, x1, y1, x2, y2, x3, y3, segments) ==
  LET n3 == segments * segments * segments
      B(i, p0, p1, p2, p3) ==
        LET u == segments - i
        IN (u * u * u * p0 + 3 * u * u * i * p1 + 3 * u * i * i * p2 + i * i * i * p3
              + n3 \div 2) \div n3
  IN [i \in 1..segments |-> << B(i, x0, x1, x2, x3), B(i, y0, y1, y2, y3) >>]

\* Faulty variant: every pair of a move restarts the subpath
RECURSIVE Pairs_EveryPairStarts(_, _, _, _, _)
Pairs_EveryPairStarts(st, params, i, absolute, move) ==
  IF i > Len(params) \/ st.raised THEN st
  ELSE IF i + 1 > Len(params) THEN [st EXCEPT !.raised = TRUE]
  ELSE LET x == IF absolute THEN params[i] ELSE st.current_x + params[i]
           y == IF absolute THEN params[i + 1] ELSE st.current_y + params[i + 1]
       IN Pairs_EveryPairStarts(
            [st EXCEPT !.current_x = x, !.current_y = y,
                       !.subpath_start_x = IF move THEN x ELSE @,
                       !.subpath_start_y = IF move THEN y ELSE @,
                       !.polyline = Append(@, << x, y >>)],
            params, i + 2, absolute, move)

\* The loops "for i in range(0, len(params), 2)" of the M/m and L/l branches
\* (path_processor.py lines 95-128), from the pair at index i (from 1)
RECURSIVE Pairs(_, _, _, _, _)
Pairs(st, params, i, absolute, move) ==
  IF i > Len(params) \/ st.raised THEN st
  ELSE IF i + 1 > Len(params) THEN [st EXCEPT !.raised = TRUE]
  ELSE LET x == IF absolute THEN params[i] ELSE st.current_x + params[i]
           y == IF absolute THEN params[i + 1] ELSE st.current_y + params[i + 1]
           first == move /\ i = 1
       IN Pairs([st EXCEPT !.current_x = x, !.current_y = y,
                           !.subpath_start_x = IF first THEN x ELSE @,
                           !.subpath_start_y = IF first THEN y ELSE @,
                           !.polyline = Append(@, << x, y >>)],
                params, i + 2, absolute, move)

\* The loops "for x in params" / "for y in params" of the H/h and V/v branches
\* (path_processor.py lines 130-150)
RECURSIVE Singles(_, _, _, _, _)
Singles(st, params, i, absolute, horizontal) ==
  IF i > Len(params) THEN st
  ELSE LET x == IF ~horizontal THEN st.current_x
                ELSE IF absolute THEN params[i] ELSE st.current_x + params[i]
           y == IF horizontal THEN st.current_y
                ELSE IF absolute THEN params[i] ELSE st.current_y + params[i]
       IN Singles([st EXCEPT !.current_x = x, !.current_y = y,
                             !.polyline = Append(@, << x, y >>)],
                  params, i + 1, absolute, horizontal)

\* The loops of the C/c branch (path_processor.py lines 152-179)
RECURSIVE Cubics(_, _, _, _, _)
Cubics(st, params, i, absolute, curve_resolution) ==
  IF i > Len(params) \/ st.raised THEN st
  ELSE IF i + 5 > Len(params) THEN [st EXCEPT !.raised = TRUE]
  ELSE LET ox == IF absolute THEN 0 ELSE st.current_x
           oy == IF absolute THEN 0 ELSE st.current_y
           x == ox + params[i + 4]
           y == oy + params[i + 5]
           points == CubicBezierToPolyline(st.current_x, st.current_y,
                                           ox + params[i], oy + params[i + 1],
                                           ox + params[i + 2], oy + params[i + 3],
                                           x, y, curve_resolution)
       IN Cubics([st EXCEPT !.polyline = @ \o points, !.current_x = x, !.current_y = y],
                 params, i + 6, absolute, curve_resolution)

\* The loops of the S/s branch (path_processor.py lines 181-225); prev_x2,
\* prev_y2 start as the current point whatever came before
RECURSIVE Smooths(_, _, _, _, _, _, _)
Smooths(st, params, i, absolute, curve_resolution, prev_x2, prev_y2) ==
  IF i > Len(params) \/ st.raised THEN st
  ELSE IF i + 3 > Len(params) THEN [st EXCEPT !.raised = TRUE]
  ELSE LET ox == IF absolute THEN 0 ELSE st.current_x
           oy == IF absolute THEN 0 ELSE st.current_y
           x2 == ox + params[i]
           y2 == oy + params[i + 1]
           x == ox + params[i + 2]
           y == oy + params[i + 3]
           x1 == 2 * st.current_x - prev_x2
           y1 == 2 * st.current_y - prev_y2
           points == CubicBezierToPolyline(st.current_x, st.current_y, x1, y1, x2, y2,
                                           x, y, curve_resolution)
       IN Smooths([st EXCEPT !.polyline = @ \o points, !.current_x = x, !.current_y = y],
                  params, i + 4, absolute, curve_resolution, x2, y2)

\* Faulty variant: the close always appends the subpath start
Close_Always(st) ==
  [st EXCEPT !.polyline = Append(@, << st.subpath_start_x, st.subpath_start_y >>),
             !.current_x = st.subpath_start_x, !.current_y = st.subpath_start_y]

\* The Z/z branch (path_processor.py lines 227-231)
Close(st) ==
  [st EXCEPT !.polyline =
               IF st.subpath_start_x # st.current_x \/ st.subpath_start_y # st.current_y
               THEN Append(@, << st.subpath_start_x, st.subpath_start_y >>)
               ELSE @,
             !.current_x = st.subpath_start_x, !.current_y = st.subpath_start_y]

\* Faulty variant: the quadratic commands are flattened as lines through their
\* pairs instead of being skipped
FlattenCommand_QuadAsLine(st, cmd, curve_resolution) ==
  LET command == cmd.command
      params == cmd.params
  IN CASE command \in {"M", "m"} -> Pairs(st, params, 1, command = "M", TRUE)
       [] command \in {"L", "l", "Q", "q", "T", "t"} ->
            Pairs(st, params, 1, command \in {"L", "Q", "T"}, FALSE)
       [] command \in {"H", "h"} -> Singles(st, params, 1, command = "H", TRUE)
       [] command \in {"V", "v"} -> Singles(st, params, 1, command = "V", FALSE)
       [] command \in {"C", "c"} -> Cubics(st, params, 1, command = "C", curve_resolution)
       [] command \in {"S", "s"} ->
            Smooths(st, params, 1, command = "S", curve_resolution,
                    st.current_x, st.current_y)
       [] command \in {"Z", "z"} -> Close(st)
       [] OTHER -> st

\* One turn of "for cmd in path_commands" (path_processor.py lines 90-234)
FlattenCommand(st, cmd, curve_resolution) ==
  LET command == cmd.command
      params == cmd.params
  IN CASE command \in {"M", "m"} -> Pairs(st, params, 1, command = "M", TRUE)
       [] command \in {"L", "l"} -> Pairs(st, params, 1, command = "L", FALSE)
       [] command \in {"H", "h"} -> Singles(st, params, 1, command = "H", TRUE)
       [] command \in {"V", "v"} -> Singles(st, params, 1, command = "V", FALSE)
       [] command \in {"C", "c"} -> Cubics(st, params, 1, command = "C", curve_resolution)
       [] command \in {"S", "s"} ->
            Smooths(st, params, 1, command = "S", curve_resolution,
                    st.current_x, st.current_y)
       [] command \in {"Z", "z"} -> Close(st)
       [] OTHER -> st

\* The locals of path_to_polyline after each of its commands: element 1 before
\* the first command, element k + 1 after command k (an exception ends the loop)
RECURSIVE FlattenSteps(_, _, _)
FlattenSteps(steps, path_commands, curve_resolution) ==
  IF path_commands = << >> \/ steps[Len(steps)].raised THEN steps
  ELSE FlattenSteps(
         Append(steps, FlattenCommand(steps[Len(steps)], Head(path_commands),
                                      curve_resolution)),
         Tail(path_commands), curve_resolution)

\* PathProcessor.path_to_polyline: the polyline returned (or raised), with the
\* locals after each command
PathToPolyline(path_commands, curve_resolution) ==
  The({ [polyline |-> IF steps[Len(steps)].raised THEN << >>
                      ELSE steps[Len(steps)].polyline,
         raised |-> steps[Len(steps)].raised, steps |-> steps]
        : steps \in {FlattenSteps(<< Flattening(<< >>, 0, 0, 0, 0) >>, path_commands,
                                  curve_resolution)} })

\* Longest command list flattened
MaxCmds == 4

\* M 0 0; M 1 1; M 1 1 3 1; L 3 1; l 1 1; h 2; C 3 0 7 0 10 0; Z; z
PathCommands ==
  { PathCommand("M", << 0, 0 >>),
    PathCommand("M", << UU, UU >>), PathCommand("M", << UU, UU, 3 * UU, UU >>),
    PathCommand("L", << 3 * UU, UU >>),
    PathCommand("l", << UU, UU >>), PathCommand("h", << 2 * UU >>),
    PathCommand("C", << 3 * UU, 0, 7 * UU, 0, 10 * UU, 0 >>),
    PathCommand("Z", << >>), PathCommand("z", << >>) }

\* M 0 0; C 0 2 2 2 2 0; S 4 -2 4 0; s 1 1 2 0 1 -1 2 0; Q 1 1 2 2; t 3 3;
\* A 1 1 0 0 1 5 5; m 1 1 2 0; Z
CurveCommands ==
  { PathCommand("M", << 0, 0 >>),
    PathCommand("C", << 0, 2 * UU, 2 * UU, 2 * UU, 2 * UU, 0 >>),
    PathCommand("S", << 4 * UU, -2 * UU, 4 * UU, 0 >>),
    PathCommand("s", << UU, UU, 2 * UU, 0, UU, -UU, 2 * UU, 0 >>),
    PathCommand("Q", << UU, UU, 2 * UU, 2 * UU >>),
    PathCommand("t", << 3 * UU, 3 * UU >>),
    PathCommand("A", << UU, UU, 0, 0, 1, 5 * UU, 5 * UU >>),
    PathCommand("m", << UU, UU, 2 * UU, 0 >>),
    PathCommand("Z", << >>) }

CommandLists ==
  UNION { [1..n -> PathCommands] \cup [1..n -> CurveCommands] : n \in 0..MaxCmds }
CurveResolutions == {4}

FlattenInit == FreshController(MkConfig(DefaultSafeZ * MM, ConeNum, ToolsNone))

ApplyPathToPolyline ==
  /\ pure = NoPure
  /\ \E path_commands \in CommandLists, curve_resolution \in CurveResolutions :
       Applied([fn |-> "path_to_polyline", path_commands |-> path_commands,
                curve_resolution |-> curve_resolution,
                result |-> PathToPolyline(path_commands, curve_resolution)])

FlattenNext == ApplyPathToPolyline

FlattenSpec == FlattenInit /\ [][FlattenNext]_vars

\* ============================================================ gcode.py
\* GCodeGenerator keeps the position it last commanded.  Lengths are in 1e-7 mm
\* and feed rates in 1e-3 mm/min, as above; None is Absent.

\* f"{feed_rate:.0f}" of a feed rate: whole mm/min, rounded
Fmt0(v) == (v + 500) \div 1000

\* The defaults of generate_safe_travel_move when the "machine" section or the
\* key is missing
gen_safe_z_default == 5
gen_travel_speed_default == 3000

\* The "machine" section of the generator's config, reduced to the two keys
\* that generate_safe_travel_move reads
GenConfig(safe_z, speed) == [safe_z |-> safe_z, travel_speed |-> speed]

\* self.config.get("machine", {}).get(key, default)
GenConfigGet(config, key, default) ==
  IF config[key] = Absent THEN default ELSE config[key]

\* A G-code line of the generator: the letter values as printed
GenCommand(op, x, y, z, f) == [op |-> op, x |-> x, y |-> y, z |-> z, f |-> f]

GenCall(op, x, y, z, feed_rate, from_z) ==
  [op |-> op, x |-> x, y |-> y, z |-> z, feed_rate |-> feed_rate, from_z |-> from_z]

\* GCodeGenerator.__init__
NewGenerator(config) ==
  [config |-> config, current_x |-> 0, current_y |-> 0, current_z |-> 0,
   current_feed_rate |-> Absent,
   call |-> GenCall("__init__", Absent, Absent, Absent, Absent, 0),
   returned |-> << >>]

\* GCodeGenerator.move_to and rapid_move_to (op G1 and G0): the coordinates
\* given are printed with 3 decimals and tracked unrounded; only G1 takes a
\* feed rate
MoveTo(g, op, x, y, z, feed_rate) ==
  [gen |-> [g EXCEPT !.current_x = IF x # Absent THEN x ELSE @,
                     !.current_y = IF y # Absent THEN y ELSE @,
                     !.current_z = IF z # Absent THEN z ELSE @,
                     !.current_feed_rate = IF feed_rate # Absent THEN feed_rate ELSE @],
   command |-> GenCommand(op,
                          IF x # Absent THEN Fmt3(x) ELSE Absent,
                          IF y # Absent THEN Fmt3(y) ELSE Absent,
                          IF z # Absent THEN Fmt3(z) ELSE Absent,
                          IF feed_rate # Absent THEN Fmt0(feed_rate) ELSE Absent)]

\* GCodeGenerator.home_axes: the axes named are tracked at 0
HomeAxes(g, x, y, z) ==
  [gen |-> [g EXCEPT !.current_x = IF x THEN 0 ELSE @,
                     !.current_y = IF y THEN 0 ELSE @,
                     !.current_z = IF z THEN 0 ELSE @],
   command |-> GenCommand("G28", IF x THEN 0 ELSE Absent, IF y THEN 0 ELSE Absent,
                          IF z THEN 0 ELSE Absent, Absent)]

\* Faulty variant: the raise is emitted at the safe height too
GenerateSafeTravelMove_RaiseAtSafe(g, x, y) ==
  LET safe_z == GenConfigGet(g.config, "safe_z", gen_safe_z_default * MM)
      speed == GenConfigGet(g.config, "travel_speed", gen_travel_speed_default * 1000)
      up == MoveTo(g, "G1", Absent, Absent, safe_z, speed)
      raise == g.current_z <= safe_z
      over == MoveTo(IF raise THEN up.gen ELSE g, "G1", x, y, Absent, speed)
  IN [gen |-> over.gen,
      commands |-> (IF raise THEN << up.command >> ELSE << >>) \o << over.command >>]

\* GCodeGenerator.generate_safe_travel_move
GenerateSafeTravelMove(g, x, y) ==
  LET safe_z == GenConfigGet(g.config, "safe_z", gen_safe_z_default * MM)
      speed == GenConfigGet(g.config, "travel_speed", gen_travel_speed_default * 1000)
      up == MoveTo(g, "G1", Absent, Absent, safe_z, speed)
      raise == g.current_z < safe_z
      over == MoveTo(IF raise THEN up.gen ELSE g, "G1", x, y, Absent, speed)
  IN [gen |-> over.gen,
      commands |-> (IF raise THEN << up.command >> ELSE << >>) \o << over.command >>]

\* No config; the config of test_config_integration (safe_z 10, travel speed
\* 5000); a safe height with a fourth decimal
GenConfigs ==
  { GenConfig(Absent, Absent), GenConfig(10 * MM, 5000 * 1000),
    GenConfig(100004000, Absent) }
GenXs == {0, 50 * MM}
GenYs == {0, 60 * MM}
GenZs == {0, 5 * MM, 10 * MM, 100003000, 20 * MM}
GenFeeds == {Absent, 1500 * 1000}

\* The controller of airbrush.py, built and left alone
IdleController ==
  /\ cfg = MkConfig(DefaultSafeZ * MM, ConeNum, ToolsNone)
  /\ current_z = cfg.safe_z
  /\ brush_a_active = FALSE
  /\ brush_b_active = FALSE
  /\ current_brush = NoBrush
  /\ out = << >>
  /\ raised = FALSE
  /\ call = NoCall
  /\ loc = NoLocals
  /\ mach = NewMachine(cfg.safe_z)
  /\ prev = NoPrev
  /\ phase = "new"
  /\ pure = NoPure

controller == << cfg, current_z, brush_a_active, brush_b_active, current_brush,
                 out, raised, call, loc, mach, prev, phase, pure >>

GcodeInit ==
  /\ IdleController
  /\ conf = NoConfigs
  /\ \E config \in GenConfigs : gen = NewGenerator(config)

\* A method of the generator returned: its fields, its arguments and its output
GenReturn(g, cl, commands) ==
  /\ gen' = [g EXCEPT !.call = cl, !.returned = commands]
  /\ UNCHANGED << controller, conf >>

GenMoveTo ==
  \E x \in GenXs \cup {Absent}, y \in GenYs \cup {Absent}, z \in GenZs \cup {Absent},
     feed_rate \in GenFeeds :
    LET r == MoveTo(gen, "G1", x, y, z, feed_rate)
    IN GenReturn(r.gen, GenCall("move_to", x, y, z, feed_rate, gen.current_z),
                 << r.command >>)

GenRapidMoveTo ==
  \E x \in GenXs \cup {Absent}, y \in GenYs \cup {Absent}, z \in GenZs \cup {Absent} :
    LET r == MoveTo(gen, "G0", x, y, z, Absent)
    IN GenReturn(r.gen, GenCall("rapid_move_to", x, y, z, Absent, gen.current_z),
                 << r.command >>)

GenHomeAxes ==
  \E x \in BOOLEAN, y \in BOOLEAN, z \in BOOLEAN :
    LET r == HomeAxes(gen, x, y, z)
    IN GenReturn(r.gen,
                 GenCall("home_axes", IF x THEN 0 ELSE Absent, IF y THEN 0 ELSE Absent,
                         IF z THEN 0 ELSE Absent, Absent, gen.current_z),
                 << r.command >>)

GenSafeTravel ==
  \E x \in GenXs, y \in GenYs :
    LET r == GenerateSafeTravelMove(gen, x, y)
    IN GenReturn(r.gen,
                 GenCall("generate_safe_travel_move", x, y, Absent, Absent,
                         gen.current_z),
                 r.commands)

GcodeNext == GenMoveTo \/ GenRapidMoveTo \/ GenHomeAxes \/ GenSafeTravel

GcodeSpec == GcodeInit /\ [][GcodeNext]_vars

\* ============================================================ config.py
\* Python dictionaries are objects: a dictionary lives at a place of the heap
\* and a value that is a dictionary is a reference to its place, so that two
\* keys or two Config instances can hold the same dictionary.

\* A value held under a key: a reference to a dictionary, an int, a str, None
DictAt(at) == [kind |-> "dict", at |-> at, int |-> 0, str |-> ""]
IntOf(n) == [kind |-> "int", at |-> 0, int |-> n, str |-> ""]
StrOf(s) == [kind |-> "str", at |-> 0, int |-> 0, str |-> s]
NoneValue == [kind |-> "none", at |-> 0, int |-> 0, str |-> ""]

\* {} and d[k] = v
EmptyDict == [k \in {} |-> NoneValue]
Put(d, k, v) == [x \in DOMAIN d \cup {k} |-> IF x = k THEN v ELSE d[x]]

\* The heap once the class body of Config has run: DEFAULT_CONFIG at place 1
\* with its sections "machine" at 2 and "svg" at 3 (of the keys of the source,
\* three of "machine" and one of "svg" are kept)
DefaultConfigAt == 1
ClassHeap ==
  << Put(Put(EmptyDict, "machine", DictAt(2)), "svg", DictAt(3)),
     Put(Put(Put(EmptyDict, "name", StrOf("H.Airbrush")), "bed_size_x", IntOf(400)),
         "travel_speed", IntOf(3000)),
     Put(EmptyDict, "dpi", IntOf(96)) >>

\* path.split(".") of the paths used
Split(path) ==
  CASE path = "machine.name" -> << "machine", "name" >>
    [] path = "machine.bed_size_x" -> << "machine", "bed_size_x" >>
    [] path = "machine.travel_speed" -> << "machine", "travel_speed" >>
    [] path = "svg.dpi" -> << "svg", "dpi" >>
    [] path = "extra.k" -> << "extra", "k" >>
    [] OTHER -> << path >>

\* The walk of Config.get from the dictionary at ref: KeyError and TypeError
\* give the default
RECURSIVE Walk(_, _, _, _)
Walk(heap, value, parts, default) ==
  IF parts = << >> THEN value
  ELSE IF value.kind # "dict" \/ Head(parts) \notin DOMAIN heap[value.at] THEN default
  ELSE Walk(heap, heap[value.at][Head(parts)], Tail(parts), default)

\* Config.get
ConfigGet(heap, config, path, default) == Walk(heap, DictAt(config), Split(path), default)

\* Config.set from the dictionary at config: the heap afterwards
RECURSIVE SetParts(_, _, _, _)
SetParts(heap, config, parts, value) ==
  IF Len(parts) = 1 THEN [heap EXCEPT ![config] = Put(@, parts[1], value)]
  ELSE IF Head(parts) \in DOMAIN heap[config] /\ heap[config][Head(parts)].kind = "dict"
  THEN SetParts(heap, heap[config][Head(parts)].at, Tail(parts), value)
  ELSE SetParts(
         Append([heap EXCEPT ![config] = Put(@, Head(parts), DictAt(Len(heap) + 1))],
                EmptyDict),
         Len(heap) + 1, Tail(parts), value)

\* Config._merge_config(target, source), over the keys of source not yet done
RECURSIVE MergeConfig(_, _, _, _)
MergeConfig(heap, target, source, keys) ==
  IF keys = {} THEN heap
  ELSE LET key == CHOOSE k \in keys : TRUE
           value == heap[source][key]
           merged ==
             IF /\ key \in DOMAIN heap[target]
                /\ heap[target][key].kind = "dict" /\ value.kind = "dict"
             THEN MergeConfig(heap, heap[target][key].at, value.at,
                              DOMAIN heap[value.at])
             ELSE [heap EXCEPT ![target] = Put(@, key, value)]
       IN MergeConfig(merged, target, source, keys \ {key})

\* A YAML file: whether it exists, and the dictionaries yaml.safe_load builds
\* from it, the document first, with references counted from the document
\* (no dictionary at all for an empty file)
File(exists, content) == [exists |-> exists, content |-> content]
NoFile == File(FALSE, << << >> >>)

\* The dictionaries of a file placed after those of the heap
Loaded(heap, content) ==
  heap \o [i \in 1..Len(content) |->
             [k \in DOMAIN content[i] |->
                IF content[i][k].kind = "dict"
                THEN DictAt(content[i][k].at + Len(heap)) ELSE content[i][k]]]

\* not user_config
Falsy(content) == content = << >> \/ DOMAIN content[1] = {}

\* Config.load_config: the heap afterwards and the value returned
LoadConfig(heap, config, file) ==
  IF ~file.exists \/ Falsy(file.content) THEN [heap |-> heap, returned |-> FALSE]
  ELSE [heap |-> MergeConfig(Loaded(heap, file.content), config, Len(heap) + 1,
                             DOMAIN file.content[1]),
        returned |-> TRUE]

\* self.DEFAULT_CONFIG.copy(): a new dictionary with the keys and the values
\* (references included) of DEFAULT_CONFIG
ShallowCopy(heap, at) == Append(heap, heap[at])

\* Most Config instances alive, most dictionaries on the heap
MaxInstances == 2
MaxHeap == 8

\* machine: {name: Custom Machine, bed_size_x: 500}; machine: {travel_speed:
\* 1000}; an empty file; a file that does not exist
UserMachine ==
  File(TRUE, << Put(EmptyDict, "machine", DictAt(2)),
                Put(Put(EmptyDict, "name", StrOf("Custom Machine")),
                    "bed_size_x", IntOf(500)) >>)
UserSpeed ==
  File(TRUE, << Put(EmptyDict, "machine", DictAt(2)),
                Put(EmptyDict, "travel_speed", IntOf(1000)) >>)
Files == { UserMachine, UserSpeed, File(TRUE, << >>), File(FALSE, << >>) }
SetCalls ==
  { << "machine.name", StrOf("Test Machine") >>, << "machine.travel_speed", IntOf(1000) >>,
    << "extra.k", IntOf(1) >>, << "units", StrOf("mm") >> }
\* The paths that DEFAULT_CONFIG gives a value
DefaultPaths == {"machine.name", "machine.bed_size_x", "machine.travel_speed", "svg.dpi"}

\* An instance: its dictionary self.config, and whether set or load_config
\* was ever called on it
Instance(config, touched) == [config |-> config, touched |-> touched]

ConfCall(op, instance, path, value, file, returned) ==
  [op |-> op, instance |-> instance, path |-> path, value |-> value, file |-> file,
   returned |-> returned]

ConfigInit ==
  /\ IdleController
  /\ gen = NoGenerator
  /\ conf = [heap |-> ClassHeap, instances |-> << >>,
             last |-> ConfCall("class", 0, "", NoneValue, NoFile, FALSE)]

\* Config(config_file): the copy of the defaults, then the load if a file is
\* named
ConfNew ==
  /\ Len(conf.instances) < MaxInstances
  /\ \E named \in BOOLEAN, file \in Files :
       /\ named \/ file = UserMachine
       /\ Len(conf.heap) + 1 + (IF named THEN Len(file.content) ELSE 0) <= MaxHeap
       /\ LET copied == ShallowCopy(conf.heap, DefaultConfigAt)
              config == Len(copied)
              r == IF named THEN LoadConfig(copied, config, file)
                   ELSE [heap |-> copied, returned |-> FALSE]
          IN conf' = [heap |-> r.heap,
                      instances |-> Append(conf.instances, Instance(config, named)),
                      last |-> ConfCall("__init__", Len(conf.instances) + 1, "",
                                        NoneValue, IF named THEN file ELSE NoFile,
                                        r.returned)]
  /\ UNCHANGED << controller, gen >>

ConfSet ==
  /\ \E i \in 1..Len(conf.instances), c \in SetCalls :
       /\ Len(conf.heap) + 1 <= MaxHeap
       /\ conf' = [heap |-> SetParts(conf.heap, conf.instances[i].config,
                                     Split(c[1]), c[2]),
                   instances |-> [conf.instances EXCEPT ![i].touched = TRUE],
                   last |-> ConfCall("set", i, c[1], c[2], NoFile, FALSE)]
  /\ UNCHANGED << controller, gen >>

ConfLoad ==
  /\ \E i \in 1..Len(conf.instances), file \in Files :
       /\ Len(conf.heap) + Len(file.content) <= MaxHeap
       /\ LET r == LoadConfig(conf.heap, conf.instances[i].config, file)
          IN conf' = [heap |-> r.heap,
                      instances |-> [conf.instances EXCEPT ![i].touched = TRUE],
                      last |-> ConfCall("load_config", i, "", NoneValue, file,
                                        r.returned)]
  /\ UNCHANGED << controller, gen >>

ConfigNext == ConfNew \/ ConfSet \/ ConfLoad

ConfigSpec == ConfigInit /\ [][ConfigNext]_vars

\* ================================================================ claims
\* The machine after the whole output so far
Machine == Run(mach, out)
ToLength(printed) == printed * (MM \div 1000)

\* C1: the Sequencer never emits a Z move whose printed target is the target of
\* the Z move before it with no XY motion printed in between.
C1_NoRedundantZMove ==
  \A i \in Lines(out, {"G1Z"}) :
    LET m == Before(mach, out, i) IN ~(m.zcmd /\ ~m.xy /\ m.z = out[i].v)

\* C3: current_z is the target of the most recently emitted Z move, or the safe
\* threshold if no Z move has been emitted yet.
C3_CurrentZIsLastCommanded ==
  current_z = IF Machine.zcmd THEN ToLength(Machine.z) ELSE cfg.safe_z

\* A Z raise followed (at once or later) by a Z lower along a trail of printed Z values
RaiseThenLower(trail) ==
  \E i, j \in 1..(Len(trail) - 1) :
    i < j /\ trail[i + 1] > trail[i] /\ trail[j + 1] < trail[j]

\* The last two calls were drawable strokes on the same brush at the same drawing Z
SameBrushSameZ ==
  /\ prev.drawable /\ Drawable(call)
  /\ prev.brush_id = loc.brush_id /\ prev.z_height = loc.z_height

\* The printed Z values from the last drawing move of the first stroke to the
\* first drawing move of the second
TrailBetween == prev.trail \o TrailBeforeDraw(out)

\* C2 as stated: between two consecutive strokes on the same brush at the same
\* drawing Z, whatever that Z, no Z raise is followed by a Z lower.
C2_NoRaiseLowerAnyZ == SameBrushSameZ => ~RaiseThenLower(TrailBetween)

\* C2 amended: between two consecutive strokes on the same brush at the same
\* drawing Z at or above the safe threshold, no Z raise is followed by a Z lower.
C2_NoRaiseLowerAtOrAboveSafe ==
  (SameBrushSameZ /\ loc.z_height >= cfg.safe_z) => ~RaiseThenLower(TrailBetween)

C2_Witness ==
  /\ SameBrushSameZ /\ loc.z_height > cfg.safe_z
  /\ Len(call.polyline) = MaxPts

\* C4: at every rapid XY move the tool is at or above the safe threshold, and in
\* a stroke also at or above that stroke's drawing Z.
C4_TravelAtSafeZ ==
  \A i \in Lines(out, {"G0"}) :
    /\ out[i].cz >= cfg.safe_z
    /\ Drawable(call) => out[i].cz >= loc.z_height

\* a stroke whose travel was preceded by a raise to its drawing Z, above the threshold
C4_Witness ==
  /\ Drawable(call) /\ loc.z_height > cfg.safe_z
  /\ \E i \in Lines(out, {"G1Z"}) : i < First(Lines(out, {"G0"}))

\* ---- the lines of a stroke's output
Ts == Lines(out, {"T"})
G0s == Lines(out, {"G0"})
Fs == Lines(out, {"G1F"})
AirOns == {i \in Lines(out, {"M106"}) : out[i].v = 1}
Ls == Lines(out, {"G1XY"})
\* the Z moves between the rapid travel and the feedrate command
ZAdjusts == {i \in Lines(out, {"G1Z"}) : First(G0s) < i /\ i < First(Fs)}

\* The order of a drawable stroke's commands: one tool select, one rapid to the
\* first point, at most one Z adjustment (to the drawing Z, only if current_z
\* differs from it), one feedrate command, one air-on of the resolved brush right
\* after it, then the n-1 line moves in polyline order, the first and only the
\* first with the flow-axis target; no flow-axis opening before the air-on.
StrokeOrder ==
  LET n == Len(call.polyline)
      t == First(Ts)
      g == First(G0s)
      f == First(Fs)
      a == First(AirOns)
  IN /\ Cardinality(Ts) = 1 /\ Cardinality(G0s) = 1 /\ Cardinality(Fs) = 1
     /\ Cardinality(AirOns) = 1 /\ Cardinality(Ls) = n - 1
     /\ out[t].v = (IF loc.brush_id = "A" THEN 0 ELSE 1)
     /\ t < g /\ g < f /\ a = f + 1
     /\ out[g].x = Fmt3(call.polyline[1][1]) /\ out[g].y = Fmt3(call.polyline[1][2])
     /\ Cardinality(ZAdjusts) <= 1
     /\ \A i \in ZAdjusts : out[i].v = Fmt3(loc.z_height) /\ out[i].cz # loc.z_height
     /\ out[f].v = loc.feedrate
     /\ out[a].x = loc.air_fan
     /\ Ls = (a + 1)..(a + n - 1)
     /\ \A k \in 1..(n - 1) :
          /\ out[a + k].x = Fmt3(call.polyline[k + 1][1])
          /\ out[a + k].y = Fmt3(call.polyline[k + 1][2])
          /\ out[a + k].t = (IF k = 1 THEN loc.axis ELSE "")
          /\ k = 1 => out[a + k].v = Fmt3(loc.flow_position)
     /\ \A i \in Lines(out, {"G1UV"}) : i < a => out[i].v = 0

\* C5 as stated: the order above, and the air valve is enabled with current_z
\* equal to the drawing Z.
C5_OrderAirAtExactZ ==
  Drawable(call) => StrokeOrder /\ out[First(AirOns)].cz = loc.z_height

\* C5 amended: the order above, and the air valve is enabled with current_z
\* within 1e-6 mm of the drawing Z.
C5_OrderAirAtDrawingZ ==
  Drawable(call) => StrokeOrder /\ Abs(out[First(AirOns)].cz - loc.z_height) <= Eps

\* a brush-B stroke of MaxPts points that descended after its travel
C5_Witness ==
  /\ Drawable(call) /\ Len(call.polyline) = MaxPts /\ loc.brush_id = "B"
  /\ ZAdjusts # {} /\ loc.z_height < cfg.safe_z

\* the machine commands (no comment, no wait) of lines k+1.. of the output
IsCommand(line) == line.op \notin {"comment", "M400"}
CommandsAfter(k) == SelectSeq(SubSeq(out, k + 1, Len(out)), IsCommand)

\* the call started with no brush active
StartedIdle == out[1].cb = NoBrush /\ ~out[1].ba /\ ~out[1].bb

\* C6: after a drawable stroke from the no-brush-active state, the last line move
\* is followed by the flow-axis move to the minimum, then by air-off of the same
\* brush, and the state is no-brush-active again.
C6_StrokeEndsClosed ==
  (Drawable(call) /\ StartedIdle) =>
    LET after == CommandsAfter(Last(Ls)) IN
    /\ Len(after) >= 2
    /\ after[1].op = "G1UV" /\ after[1].t = loc.axis
    /\ after[1].v = Fmt3(IF loc.brush_id = "A" THEN u_axis_min ELSE v_axis_min)
    /\ after[2].op = "M106" /\ after[2].x = loc.air_fan /\ after[2].v = 0
    /\ current_brush = NoBrush /\ ~brush_a_active /\ ~brush_b_active

C6_Witness ==
  /\ Drawable(call) /\ StartedIdle /\ loc.brush_id = "B" /\ prev.drawable
  /\ current_brush = NoBrush

\* C7: a soft-limit disable is emitted only right after selecting tool 1 in a
\* brush-B stroke and is followed by a restore before any other tool selection;
\* a brush-A stroke emits no M564 and runs with soft limits enabled; soft limits
\* are enabled after every call, so at the end of the job.
C7_SoftLimits ==
  /\ \A i \in Lines(out, {"M564"}) :
       out[i].v = 0 =>
         /\ Drawable(call) /\ loc.brush_id = "B"
         /\ i > 1 /\ out[i - 1].op = "T" /\ out[i - 1].v = 1
         /\ \E j \in Lines(out, {"M564"}) :
              j > i /\ out[j].v = 1 /\ \A k \in Ts : ~(i < k /\ k < j)
  /\ (Drawable(call) /\ loc.brush_id = "A") =>
       Lines(out, {"M564"}) = {} /\ mach.soft
  /\ Machine.soft

\* the job ended after a brush-B stroke that disabled the soft limits
C7_Witness ==
  /\ phase = "done" /\ prev.drawable /\ prev.brush_id = "B" /\ Machine.soft

\* C8: a polyline of fewer than 2 points yields one comment line and nothing
\* else, and leaves current_z, current_brush and both brush flags as they were.
C8_DegenerateSkipped ==
  (call.op = "path" /\ Len(call.polyline) < 2) =>
    /\ ~raised /\ Len(out) = 1 /\ out[1].op = "comment"
    /\ current_z = out[1].cz /\ current_brush = out[1].cb
    /\ brush_a_active = out[1].ba /\ brush_b_active = out[1].bb

\* a one-point polyline skipped right after a drawn stroke
C8_Witness ==
  /\ call.op = "path" /\ Len(call.polyline) = 1 /\ prev.drawable
  /\ Len(out) = 1

\* the bounds of the resolved tool as configured (an absent bound does not bind)
ConfiguredMin == ToolGet(ResolveToolForColor(cfg, call.stroke_color).tool_cfg,
                         "min_width", call.stroke_width)
ConfiguredMax == ToolGet(ResolveToolForColor(cfg, call.stroke_color).tool_cfg,
                         "max_width", call.stroke_width)
HasComment(tag) == \E i \in Lines(out, {"comment"}) : out[i].t = tag

\* the effective width is the requested width clamped into [min(min_width,
\* max_width), max(min_width, max_width)]; misordered bounds give a warning
\* comment, and the stroke is drawn all the same
WidthClamped ==
  /\ loc.effective_width =
       Max(Min(ConfiguredMin, ConfiguredMax),
           Min(Max(ConfiguredMin, ConfiguredMax), call.stroke_width))
  /\ ConfiguredMax < ConfiguredMin => HasComment("WARNING misordered")
  /\ ~raised /\ Ls # {}

\* C10 as stated: a clamp comment exactly when the effective width differs from
\* the requested width.
C10_ClampCommentIffChanged ==
  Drawable(call) =>
    /\ WidthClamped
    /\ HasComment("Width clamped") <=> (loc.effective_width # call.stroke_width)

\* C10 amended: a clamp comment exactly when the effective width differs from the
\* requested width by more than 1e-6 mm.
C10_ClampCommentIffChangedByEps ==
  Drawable(call) =>
    /\ WidthClamped
    /\ HasComment("Width clamped")
         <=> (Abs(loc.effective_width - call.stroke_width) > Eps)

\* misordered bounds, the width clamped down to the larger of them
C10_Witness ==
  /\ Drawable(call) /\ ConfiguredMax < ConfiguredMin
  /\ loc.effective_width = ConfiguredMin /\ call.stroke_width > ConfiguredMin
  /\ HasComment("Width clamped")

\* C9: start_brush and stop_brush with an identifier other than 'A' or 'B' raise,
\* emit nothing and leave current_z, current_brush and both flags as they were.
C9_InvalidBrushFailsFast ==
  [][(call'.op \in {"start_brush", "stop_brush"} /\ call'.brush_id \notin {"A", "B"})
       => /\ raised' /\ out' = << >>
          /\ current_z' = current_z
          /\ current_brush' = current_brush
          /\ brush_a_active' = brush_a_active
          /\ brush_b_active' = brush_b_active]_vars

\* an invalid stop_brush raised while brush B was active
C9_Witness ==
  /\ raised /\ call.op = "stop_brush" /\ call.brush_id = "C"
  /\ current_brush = "B" /\ brush_b_active

\* ------------------------------------------------ the deterministic mapper
Calculated == pure.fn = "calculate_airbrush_parameters"
Resolved == pure.fn = "_resolve_tool_for_color"

\* C11 as stated: for all widths and all configured (z_min, z_max, cone_angle)
\* the Z height returned satisfies z_min <= z_height <= z_max.
C11_ZWithinBounds ==
  Calculated =>
    cfg.z_min <= pure.result.z_height /\ pure.result.z_height <= cfg.z_max

\* C11 amended: for all widths and all configured (z_min, z_max, cone_angle) with
\* z_min <= z_max the Z height returned satisfies z_min <= z_height <= z_max.
C11_ZWithinOrderedBounds ==
  (Calculated /\ cfg.z_min <= cfg.z_max) =>
    cfg.z_min <= pure.result.z_height /\ pure.result.z_height <= cfg.z_max

\* a width whose cone height lies above z_max was mapped to z_max
C11_Witness ==
  /\ Calculated /\ cfg.z_min < cfg.z_max /\ cfg.cone_num > 0
  /\ ZFromWidth(cfg, pure.stroke_width) > cfg.z_max
  /\ pure.result.z_height = cfg.z_max

\* The effective flow bounds of a calibration
EffectiveFlowMin == ToolGet(pure.tool_cfg, "p_min", flow_min_default)
EffectiveFlowMax == ToolGet(pure.tool_cfg, "p_max", flow_max_default)

\* C12 as stated: for all (width, opacity, tool_cfg) the flow returned lies
\* within the effective bounds, flow_min <= flow <= flow_max.
C12_FlowWithinBounds ==
  Calculated =>
    EffectiveFlowMin <= pure.result.paint_flow
      /\ pure.result.paint_flow <= EffectiveFlowMax

\* C12 amended: for all (width, opacity, tool_cfg) whose effective bounds satisfy
\* flow_min <= flow_max, the flow returned lies within them.
C12_FlowWithinOrderedBounds ==
  (Calculated /\ EffectiveFlowMin <= EffectiveFlowMax) =>
    EffectiveFlowMin <= pure.result.paint_flow
      /\ pure.result.paint_flow <= EffectiveFlowMax

\* a calibration overriding the bounds, scale and offset, whose scaled flow
\* lies above p_max, was mapped to p_max
C12_Witness ==
  /\ Calculated /\ pure.tool_cfg.p_max # Absent /\ pure.tool_cfg.flow_scale # Absent
  /\ EffectiveFlowMin < EffectiveFlowMax
  /\ ScaledFlow(pure.stroke_width, pure.stroke_opacity, pure.tool_cfg) > EffectiveFlowMax
  /\ pure.result.paint_flow = EffectiveFlowMax

\* The feedrate bounds and gamma of a calibration
EffectiveVMin == ToolGet(pure.tool_cfg, "v_min", feedrate_min_default)
EffectiveVMax == ToolGet(pure.tool_cfg, "v_max", feedrate_max_default)
EffectiveGamma == ToolGet(pure.tool_cfg, "opacity_gamma", opacity_speed_gamma_default)

\* No opacity at or above the one applied gets a higher feedrate from the same
\* calibration, and none makes the mapper raise
FeedrateNonIncreasing ==
  /\ ~pure.result.raised
  /\ \A o2 \in MapperOpacities :
       o2 >= pure.stroke_opacity =>
         LET f2 == Feedrate(o2, pure.tool_cfg)
         IN ~f2.raised /\ pure.result.feedrate >= f2.feedrate

\* C13 as stated: for any calibration with v_max >= v_min, whatever its gamma,
\* the feedrate is monotonically non-increasing in opacity.
C13_FeedrateMonotoneAnyGamma ==
  (Calculated /\ EffectiveVMax >= EffectiveVMin) => FeedrateNonIncreasing

\* C13 amended: for any calibration with v_max >= v_min and gamma >= 0 the
\* feedrate is monotonically non-increasing in opacity.
C13_FeedrateMonotone ==
  (Calculated /\ EffectiveVMax >= EffectiveVMin /\ EffectiveGamma >= 0)
    => FeedrateNonIncreasing

\* an overridden calibration with gamma 3 gave a strictly higher feedrate than
\* it gives at a higher opacity, and opacities above 1 map as 1 does
C13_Witness ==
  /\ Calculated /\ pure.tool_cfg.v_min # Absent /\ EffectiveGamma = 3
  /\ EffectiveVMax > EffectiveVMin
  /\ pure.stroke_opacity = (3 * One) \div 10
  /\ pure.result.feedrate > Feedrate(One \div 2, pure.tool_cfg).feedrate
  /\ Feedrate(One, pure.tool_cfg).feedrate
       = Feedrate((3 * One) \div 2, pure.tool_cfg).feedrate

\* The stroke colour is one of the spellings of white, in any case, with any
\* surrounding whitespace
IsWhite(color) == StripLower(color) \in {"white", "#fff", "#ffffff"}

\* No configured tool's colour matches the stroke colour, as the resolver
\* compares them
NoToolMatches ==
  \A i \in 1..Len(cfg.tools) :
    NormalizeColor(cfg.tools[i].color) # NormalizeColor(pure.stroke_color)

ExactMatches ==
  {i \in 1..Len(cfg.tools) :
     cfg.tools[i].color # ""
       /\ StripLower(cfg.tools[i].color) = StripLower(pure.stroke_color)}

\* C15: a tool whose configured colour exactly matches the stroke colour wins,
\* whatever the quantization and the order of the tools; a black stroke is never
\* resolved to a tool whose configured colour is a different non-white colour.
C15_ExactMatchWins ==
  Resolved =>
    /\ \A i \in ExactMatches :
         Cardinality(ExactMatches) = 1 =>
           pure.result = [brush_id |-> IF IsTool0(cfg.tools[i].key) THEN "A" ELSE "B",
                          tool_cfg |-> cfg.tools[i]]
    /\ StripLower(pure.stroke_color) \in {"black", "#000", "#000000"} =>
         StripLower(pure.result.tool_cfg.color)
           \in {"", "black", "#000", "#000000", "white", "#fff", "#ffffff"}

\* ------------------------------------------------------ the job's brackets
Brackets == {"init", "cleanup"}

\* C16: generate_machine_initialization and generate_machine_cleanup emit a Z
\* raise (to the safe Z) only if current_z is below the safe threshold; with
\* current_z at or above it they emit no Z move and leave current_z alone; so
\* either of them called right after either of them emits no Z move.
C16_BracketsIdempotentInZ ==
  [][call'.op \in Brackets =>
       /\ ZTargets(out') # << >> =>
            current_z < cfg.safe_z /\ ZTargets(out') = << Fmt3(cfg.safe_z) >>
       /\ current_z >= cfg.safe_z =>
            ZTargets(out') = << >> /\ current_z' = current_z
       /\ call.op \in Brackets => ZTargets(out') = << >>]_vars

\* cleanup called twice in a row after the machine had been moved in Z
C16_Witness ==
  /\ prev.op = "cleanup" /\ call.op = "cleanup" /\ mach.zcmd
  /\ ZTargets(out) = << >> /\ current_z >= cfg.safe_z

\* --------------------------------------------------------- SVG transforms
\* M_outermost . ... . M_innermost for the ancestors' transforms, nearest first
RECURSIVE OutermostLeftmost(_)
OutermostLeftmost(ancestors) ==
  IF ancestors = << >> THEN Identity3
  ELSE Dot(OutermostLeftmost(Tail(ancestors)),
           IF Head(ancestors).head = "" THEN Identity3
           ELSE ParseTransform(Head(ancestors)).matrix)

\* C17: for a path nested in groups that carry transforms the composed matrix
\* is M_outermost . ... . M_innermost; for translate(t) on the outer group and
\* scale(s) on the inner one a point p maps to s.p + t.
C17_OutermostLeftmost ==
  (pure.fn = "_extract_paths" /\ ~pure.result.raised) =>
    /\ pure.result.transform_matrix = OutermostLeftmost(pure.ancestors)
    /\ pure.ancestors = << TransformStr("scale(", << Num(2) >>),
                           TransformStr("translate(", << Num(10), Num(20) >>) >>
         => TransformPoint(pure.result.transform_matrix, 1, 1) = << 12, 22 >>

\* C18: parsing a transform string never raises; an unrecognized or malformed
\* transform yields the identity matrix, and the chain it stands in is composed.
C18_ParseNeverRaises ==
  /\ pure.fn = "_parse_transform" =>
       /\ ~pure.result.raised
       /\ pure.transform_str \in Malformed => pure.result.matrix = Identity3
  /\ pure.fn = "_extract_paths" => ~pure.result.raised

\* -------------------------------------------------------- path flattening
Flattened == pure.fn = "path_to_polyline"
IsClose(cmd) == cmd.command \in {"Z", "z"}
\* The commands of the list that path_to_polyline got to execute
Executed == 1..(Len(pure.result.steps) - 1)

\* C19: a close command appends exactly one point, the subpath start, if the
\* current point differs from it and no point if it does not; afterwards the
\* current point is the subpath start, and a relative command that follows is
\* measured from it.
C19_CloseReturnsToStart ==
  Flattened =>
    \A k \in Executed :
      IsClose(pure.path_commands[k]) =>
        LET before == pure.result.steps[k]
            after == pure.result.steps[k + 1]
            start == << before.subpath_start_x, before.subpath_start_y >>
        IN /\ after.polyline =
                IF << before.current_x, before.current_y >> # start
                THEN Append(before.polyline, start)
                ELSE before.polyline
           /\ << after.current_x, after.current_y >> = start
           /\ << after.subpath_start_x, after.subpath_start_y >> = start
           /\ (k + 1 \in Executed /\ pure.path_commands[k + 1].command = "l") =>
                LET p == pure.result.steps[k + 2].polyline
                    d == pure.path_commands[k + 1].params
                IN p[Len(p)] = << start[1] + d[1], start[2] + d[2] >>

\* M 1 1 3 1 Z Z l 1 1: the first close appends (1,1), the second nothing, and
\* the relative line starts from (1,1)
C19_Witness ==
  /\ Flattened
  /\ pure.path_commands = << PathCommand("M", << UU, UU, 3 * UU, UU >>),
                             PathCommand("Z", << >>), PathCommand("Z", << >>),
                             PathCommand("l", << UU, UU >>) >>
  /\ pure.result.polyline = << << UU, UU >>, << 3 * UU, UU >>, << UU, UU >>,
                               << 2 * UU, 2 * UU >> >>

\* The cubic from (0,0) to (10,0) with control points (3,0) and (7,0)
TheCubic == PathCommand("C", << 3 * UU, 0, 7 * UU, 0, 10 * UU, 0 >>)
\* The points command k added to the polyline
Added(k) ==
  SubSeq(pure.result.steps[k + 1].polyline, Len(pure.result.steps[k].polyline) + 1,
         Len(pure.result.steps[k + 1].polyline))
\* The cubic was flattened from the current point (0,0) at curve_resolution 4
CubicFromOrigin(k) ==
  /\ pure.path_commands[k] = TheCubic /\ pure.curve_resolution = 4
  /\ pure.result.steps[k].current_x = 0 /\ pure.result.steps[k].current_y = 0

\* C20 as stated: the cubic is flattened into exactly 4 points with
\* x = 2.5, 5.0, 7.5, 10.0 and y = 0, each to within the rounding of a
\* coordinate (1e-6).
C20_QuarterPoints ==
  Flattened =>
    \A k \in Executed :
      CubicFromOrigin(k) =>
        /\ Len(Added(k)) = 4
        /\ \A i \in 1..4 :
             Abs(Added(k)[i][1] - (i * 10 * UU) \div 4) <= 1 /\ Added(k)[i][2] = 0

\* C20 amended: the cubic is flattened into exactly 4 colinear points with
\* x = 2.40625, 5.0, 7.59375, 10.0 and y = 0; the start point is not emitted
\* again and the last point is the endpoint.
C20_BezierPoints ==
  Flattened =>
    \A k \in Executed :
      CubicFromOrigin(k) =>
        Added(k) = << << 2406250, 0 >>, << 5 * UU, 0 >>, << 7593750, 0 >>,
                      << 10 * UU, 0 >> >>

\* M 0 0 C 3 0 7 0 10 0: the move's point, then the four curve points
C20_Witness ==
  /\ Flattened /\ pure.path_commands = << PathCommand("M", << 0, 0 >>), TheCubic >>
  /\ Len(pure.result.polyline) = 5 /\ pure.result.polyline[1] = << 0, 0 >>
  /\ pure.result.polyline[5] = << 10 * UU, 0 >>

\* ---------------------------------------------------------------------------
\* C21..C23: path_to_polyline on smooth, quadratic, arc and move commands

\* The well-formed cubic and smooth-cubic commands: whole groups of parameters
IsCurve(cmd) ==
  \/ cmd.command \in {"C", "c"} /\ Len(cmd.params) >= 6 /\ Len(cmd.params) % 6 = 0
  \/ cmd.command \in {"S", "s"} /\ Len(cmd.params) >= 4 /\ Len(cmd.params) % 4 = 0

IsSmooth(cmd) == cmd.command \in {"S", "s"} /\ IsCurve(cmd)

\* The second control point of the last segment of the curve command number k:
\* its last group ends with x2 y2 x y, relative to the point the group started
\* from when the letter is lower case
SecondControl(k) ==
  LET cmd == pure.path_commands[k]
      n == Len(cmd.params)
      after == pure.result.steps[k + 1]
      relative == cmd.command \in {"c", "s"}
      ox == IF relative THEN after.current_x - cmd.params[n - 1] ELSE 0
      oy == IF relative THEN after.current_y - cmd.params[n] ELSE 0
  IN << ox + cmd.params[n - 3], oy + cmd.params[n - 2] >>

\* The points the first segment of the smooth command number k must add when
\* its first control point is the reflection of SecondControl(k - 1)
Reflected(k, curve_resolution) ==
  LET cmd == pure.path_commands[k]
      before == pure.result.steps[k]
      relative == cmd.command = "s"
      ox == IF relative THEN before.current_x ELSE 0
      oy == IF relative THEN before.current_y ELSE 0
      prev2 == SecondControl(k - 1)
  IN CubicBezierToPolyline(before.current_x, before.current_y,
                           2 * before.current_x - prev2[1],
                           2 * before.current_y - prev2[2],
                           ox + cmd.params[1], oy + cmd.params[2],
                           ox + cmd.params[3], oy + cmd.params[4], curve_resolution)

\* C21: when a smooth-cubic command follows a cubic or smooth-cubic command,
\* the first control point of its first segment is the previous segment's
\* second control point reflected through the current point; with no previous
\* curve segment the first control point is the current point.
C21_SmoothReflects ==
  Flattened =>
    \A k \in Executed :
      IsSmooth(pure.path_commands[k]) =>
        LET before == pure.result.steps[k]
            cmd == pure.path_commands[k]
            ox == IF cmd.command = "s" THEN before.current_x ELSE 0
            oy == IF cmd.command = "s" THEN before.current_y ELSE 0
            expected ==
              IF k > 1 /\ IsCurve(pure.path_commands[k - 1])
              THEN Reflected(k, pure.curve_resolution)
              ELSE CubicBezierToPolyline(before.current_x, before.current_y,
                                         before.current_x, before.current_y,
                                         ox + cmd.params[1], oy + cmd.params[2],
                                         ox + cmd.params[3], oy + cmd.params[4],
                                         pure.curve_resolution)
        IN SubSeq(Added(k), 1, pure.curve_resolution) = expected

\* The quadratic, smooth-quadratic and arc commands, which the loop of
\* path_to_polyline has no branch for
Ignored(cmd) == cmd.command \in {"Q", "q", "T", "t", "A", "a"}

NotIgnored(cmd) == ~Ignored(cmd)

\* C22: Q, T and A commands (either case) are silently ignored: no error is
\* raised for them, no point is emitted, the current point and the subpath
\* start are unchanged, and the polyline returned is that of the command list
\* with those commands removed.
C22_QuadArcIgnored ==
  Flattened =>
    /\ \A k \in Executed :
         Ignored(pure.path_commands[k]) =>
           pure.result.steps[k + 1] = pure.result.steps[k]
    /\ LET kept == PathToPolyline(SelectSeq(pure.path_commands, NotIgnored),
                                  pure.curve_resolution)
       IN /\ pure.result.polyline = kept.polyline
          /\ pure.result.raised = kept.raised

\* Q 1 1 2 2 m 1 1 2 0 A 1 1 0 0 1 5 5 Z: the points of m 1 1 2 0 Z alone
C22_Witness ==
  /\ Flattened
  /\ pure.path_commands =
       << PathCommand("Q", << UU, UU, 2 * UU, 2 * UU >>),
          PathCommand("m", << UU, UU, 2 * UU, 0 >>),
          PathCommand("A", << UU, UU, 0, 0, 1, 5 * UU, 5 * UU >>),
          PathCommand("Z", << >>) >>
  /\ ~pure.result.raised
  /\ pure.result.polyline = << << UU, UU >>, << 3 * UU, UU >>, << UU, UU >> >>

\* The move commands with k >= 1 whole coordinate pairs
IsMove(cmd) ==
  cmd.command \in {"M", "m"} /\ Len(cmd.params) >= 2 /\ Len(cmd.params) % 2 = 0

\* The j-th target of a move command from the point (x, y): the j-th pair for
\* M, the sum of the first j pairs added to (x, y) for m
RECURSIVE MoveTarget(_, _, _, _)
MoveTarget(cmd, j, x, y) ==
  IF cmd.command = "M" THEN << cmd.params[2 * j - 1], cmd.params[2 * j] >>
  ELSE IF j = 0 THEN << x, y >>
  ELSE LET p == MoveTarget(cmd, j - 1, x, y)
       IN << p[1] + cmd.params[2 * j - 1], p[2] + cmd.params[2 * j] >>

\* C23: a move command with k >= 1 pairs appends k points; the first pair sets
\* the current point and the subpath start, every additional pair is a line
\* target (absolute for M, relative to the running current point for m) that
\* moves the current point only, and a following close returns to the first
\* pair.
C23_MovePairs ==
  Flattened =>
    \A k \in Executed :
      IsMove(pure.path_commands[k]) =>
        LET cmd == pure.path_commands[k]
            n == Len(cmd.params) \div 2
            before == pure.result.steps[k]
            after == pure.result.steps[k + 1]
            target(j) == MoveTarget(cmd, j, before.current_x, before.current_y)
        IN /\ Added(k) = [j \in 1..n |-> target(j)]
           /\ << after.subpath_start_x, after.subpath_start_y >> = target(1)
           /\ << after.current_x, after.current_y >> = target(n)
           /\ (k + 1 \in Executed /\ IsClose(pure.path_commands[k + 1])) =>
                LET closed == pure.result.steps[k + 2]
                IN /\ << closed.current_x, closed.current_y >> = target(1)
                   /\ closed.polyline[Len(closed.polyline)] = target(1)

\* m 1 1 2 0 Z: two points, then the close back to the first pair
C23_Witness ==
  /\ Flattened
  /\ pure.path_commands =
       << PathCommand("m", << UU, UU, 2 * UU, 0 >>), PathCommand("Z", << >>) >>
  /\ pure.result.polyline = << << UU, UU >>, << 3 * UU, UU >>, << UU, UU >> >>

\* ---------------------------------------------------------------------------
\* C24: GCodeGenerator.generate_safe_travel_move

SafeTravelled == gen.call.op = "generate_safe_travel_move"
GenSafeZ == GenConfigGet(gen.config, "safe_z", gen_safe_z_default * MM)
GenTravelSpeed == GenConfigGet(gen.config, "travel_speed", gen_travel_speed_default * 1000)

\* C24: generate_safe_travel_move(x, y), from any tracked position, emits a Z
\* raise to the configured safe_z before the XY move if and only if current_z
\* was below safe_z, always emits the XY move last at the travel speed, never
\* lowers Z (neither the tracked value nor the printed one), and afterwards
\* current_z >= safe_z and (current_x, current_y) = (x, y).
C24_SafeTravel ==
  SafeTravelled =>
    LET n == Len(gen.returned)
    IN /\ n = (IF gen.call.from_z < GenSafeZ THEN 2 ELSE 1)
       /\ n = 2 =>
            gen.returned[1]
              = GenCommand("G1", Absent, Absent, Fmt3(GenSafeZ), Fmt0(GenTravelSpeed))
       /\ gen.returned[n]
            = GenCommand("G1", Fmt3(gen.call.x), Fmt3(gen.call.y), Absent,
                         Fmt0(GenTravelSpeed))
       /\ \A i \in 1..n :
            gen.returned[i].z # Absent => gen.returned[i].z >= Fmt3(gen.call.from_z)
       /\ gen.current_z >= gen.call.from_z
       /\ gen.current_z >= GenSafeZ
       /\ gen.current_x = gen.call.x /\ gen.current_y = gen.call.y

\* The case of test_config_integration: from Z 0 with safe_z 10 and travel
\* speed 5000 to (50, 60): G1 Z10.000 F5000, then G1 X50.000 Y60.000 F5000
C24_Witness ==
  /\ SafeTravelled /\ gen.call.from_z = 0
  /\ gen.returned = << GenCommand("G1", Absent, Absent, 10000, 5000),
                       GenCommand("G1", 50000, 60000, Absent, 5000) >>
  /\ gen.current_z = 10 * MM

\* ---------------------------------------------------------------------------
\* C25, C30: Config

\* The value DEFAULT_CONFIG gives a path in the source text
OriginalDefault(path) == ConfigGet(ClassHeap, DefaultConfigAt, path, NoneValue)

\* The value a file gives a path (None if the file does not hold it)
UserValue(file, path) == ConfigGet(file.content, 1, path, NoneValue)

\* An instance was just built from a file that load_config accepted
LoadedOverDefaults == conf.last.op = "__init__" /\ conf.last.returned

\* C25: loading a user configuration over the defaults overrides only the keys
\* present in it, merging nested sections: every default key absent from the
\* user configuration keeps its default value (machine.travel_speed stays 3000
\* when only machine.name and the bed size are overridden) and every key
\* present takes the user's value.
C25_LoadOverridesOnlyPresent ==
  LoadedOverDefaults =>
    \A path \in DefaultPaths :
      ConfigGet(conf.heap, conf.instances[conf.last.instance].config, path, NoneValue)
        = IF UserValue(conf.last.file, path) # NoneValue
          THEN UserValue(conf.last.file, path)
          ELSE OriginalDefault(path)

\* C30: Config instances are isolated from each other and from the class
\* defaults: whatever set and load_config calls other instances received, get
\* on an instance that received none returns the original default of every
\* default path, and DEFAULT_CONFIG and its sections are as in the source.
C30_InstancesIsolated ==
  conf.last.op # "" =>
    /\ \A i \in 1..Len(conf.instances) :
         ~conf.instances[i].touched =>
           \A path \in DefaultPaths :
             ConfigGet(conf.heap, conf.instances[i].config, path, NoneValue)
               = OriginalDefault(path)
    /\ SubSeq(conf.heap, 1, Len(ClassHeap)) = ClassHeap

\* ---------------------------------------------------------------------------
\* C26..C29: the Sequencer over jobs and call sequences

\* current_z once the Z move of line i of the output and its wait are done
\* (every Z move is followed by its M400, then current_z is assigned)
ZAfter(i) == IF i + 2 <= Len(out) THEN out[i + 2].cz ELSE current_z

\* Line i is the Z adjustment directly after a stroke's rapid travel and wait
IsPostTravel(i) == Drawable(call) /\ G0s # {} /\ i = First(G0s) + 2

\* C26: over any job, the only Z move that decreases current_z is the
\* adjustment directly after a stroke's rapid travel, and its target is that
\* stroke's drawing Z; every other Z move (initialization, start_brush,
\* pre-travel, stop_brush, cleanup) raises current_z, and Z is never lowered to
\* the safe threshold merely because the tool is above it.
C26_LoweredOnlyAfterTravel ==
  \A i \in Lines(out, {"G1Z"}) :
    /\ ZAfter(i) < out[i].cz => IsPostTravel(i)
    /\ IsPostTravel(i) => ZAfter(i) = loc.z_height /\ out[i].v = Fmt3(loc.z_height)
    /\ ~IsPostTravel(i) => ZAfter(i) > out[i].cz
    /\ (out[i].cz > cfg.safe_z /\ ZAfter(i) = cfg.safe_z) =>
         IsPostTravel(i) /\ loc.z_height = cfg.safe_z

\* a stroke that came down after its travel from above the safe threshold,
\* straight to a drawing Z below the threshold
C26_Witness ==
  /\ Drawable(call) /\ loc.z_height < cfg.safe_z
  /\ \E i \in Lines(out, {"G1Z"}) :
       IsPostTravel(i) /\ out[i].cz > cfg.safe_z /\ ZAfter(i) = loc.z_height

\* C27: after any sequence of start_brush, stop_brush and
\* generate_path_commands calls with valid brush identifiers, paired or not,
\* the brush state is one of no-brush-active, brush-A-active, brush-B-active:
\* the two flags are never both true, and current_brush is 'A' (resp. 'B')
\* exactly when brush_a_active (resp. brush_b_active) is true.
C27_OneBrushState ==
  /\ ~(brush_a_active /\ brush_b_active)
  /\ (current_brush = "A") = brush_a_active
  /\ (current_brush = "B") = brush_b_active

\* The lines of a call's output emitted with current_z below the safe threshold
BelowSafe == {i \in 1..Len(out) : out[i].cz < cfg.safe_z}

\* C28: from a freshly created controller, current_z >= safe threshold holds
\* before and after every public operation in any order; current_z is below
\* the threshold only inside generate_path_commands, after the post-travel
\* descent and until the raise in stop_brush (and its wait) is done; so the
\* pre-travel step never finds current_z below the threshold.
C28_SafeAtCallBoundaries ==
  /\ current_z >= cfg.safe_z
  /\ BelowSafe # {} =>
       /\ Drawable(call) /\ loc.z_height < cfg.safe_z
       /\ LET descent == First(G0s) + 2
              raise == Last(Lines(out, {"G1Z"}))
          IN /\ out[descent].op = "G1Z" /\ out[descent].v = Fmt3(loc.z_height)
             /\ out[raise].v = Fmt3(cfg.safe_z)
             /\ BelowSafe = (descent + 2)..(raise + 1)
             /\ \A i \in BelowSafe : out[i].cz = loc.z_height
             /\ \E i \in Lines(out, {"comment"}) :
                  out[i].t = "STOP BRUSH" /\ descent < i /\ i < raise

\* a stroke drawn below the threshold in a sequence of calls that did not begin
\* with initialization
C28_Witness ==
  /\ BelowSafe # {} /\ Drawable(call) /\ current_z = cfg.safe_z
  /\ prev.op \in {"start_brush", "stop_brush", "cleanup"}

\* Both air valves are off and both flow axes are at their minimum position
Closed(m) ==
  /\ ~m.air2 /\ ~m.air3
  /\ m.u = Fmt3(u_axis_min) /\ m.v = Fmt3(v_axis_min)

\* C29: in any job that begins with generate_machine_initialization, at every
\* rapid travel move (each stroke's G0 and cleanup's return to the origin) both
\* air valves are off and both flow axes are at their minimum, and between
\* strokes (from the end of a call to the next stroke's air-on) the air valve
\* and the flow axis of every brush stay closed.
C29_NoPaintWhileTravelling ==
  call.op # "new" =>
    /\ \A i \in G0s : Closed(Before(mach, out, i))
    /\ Closed(Machine)
    /\ Drawable(call) /\ ~raised =>
         \A i \in 1..First(AirOns) : Closed(Before(mach, out, i))
    /\ call.op = "cleanup" => \A i \in 1..Len(out) : Closed(Before(mach, out, i))

\* a stroke that travelled right after a stroke of the other brush
C29_Witness ==
  /\ Drawable(call) /\ ~raised /\ prev.drawable /\ prev.brush_id # loc.brush_id
  /\ G0s # {} /\ Closed(Before(mach, out, First(G0s)))
  /\ ~Closed(Before(mach, out, Last(Ls) + 1))

====
